---- MODULE Spec2Model ----
(***************************************************************************)
(* A model of jenkins-monitor.                                             *)
(*                                                                         *)
(* Two evaluators live in the repository:                                  *)
(*   - src/main.rs: the blocking monitor (monitor_jobs / check_job /       *)
(*     should_job_have_run), which keeps no alert history;                 *)
(*   - src/monitor.rs: Monitor (check_all_jobs / check_job /               *)
(*     calculate_expected_run_time), which keeps job_states and the        *)
(*     one-hour alert cooldown.                                            *)
(* Spec is the main.rs loop, MonitorSpec the Monitor loop.                 *)
(*                                                                         *)
(* Time is in whole seconds since T0 = 2025-12-06T00:00:00Z (Unix          *)
(* 1764979200, a multiple of 86400, so hour-of-day and minute-of-hour of   *)
(* an instant are those of its offset). Build timestamps are milliseconds  *)
(* since T0, as Jenkins reports epoch milliseconds.                        *)
(*                                                                         *)
(* Option<T> is a sequence of length at most one: None is <<>>, Some(x)    *)
(* is <<x>>.                                                               *)
(***************************************************************************)
EXTENDS Integers, Sequences, FiniteSets, TLC

VARIABLES
    clock,        \* wall clock (Utc::now()), seconds since T0
    app_conf,     \* main.rs APP_CONF: [alert_on_check_error, job]
    cursor,       \* main.rs monitor_jobs: index of the next job of the cycle
    cycle,        \* main.rs main: number of completed monitor_jobs cycles
    checked,      \* main.rs: what the last loop iteration of monitor_jobs did
    emails,       \* main.rs: send_email_alert calls so far, in order
    handled,      \* main.rs: the jobs monitor_jobs has gone through in the last cycle
    mon_conf,     \* monitor.rs Monitor.config.jobs
    job_states,   \* monitor.rs Monitor.job_states: name -> Option<JobState>
    mon_cursor,   \* monitor.rs check_all_jobs: index of the next job of the tick
    mon_pc,       \* monitor.rs Monitor::run: "connecting", "running" or "terminated"
    mon_checked,  \* monitor.rs: what the last Monitor::check_job call did
    mon_alerts,   \* monitor.rs: Monitor::send_alert calls so far, in order
    mon_sent,     \* monitor.rs: per job, the last send_alert call that returned Ok
    http,         \* main.rs http_get_with_retries: one call, its locals and result
    cron,         \* main.rs should_job_have_run: one call, its arguments and result
    text          \* main.rs: one call of a text function, its arguments and result

vars == <<clock, app_conf, cursor, cycle, checked, emails, handled,
          mon_conf, job_states, mon_cursor, mon_pc, mon_checked, mon_alerts, mon_sent,
          http, cron, text>>

mainVars == <<app_conf, cursor, cycle, checked, emails, handled>>
monVars == <<mon_conf, job_states, mon_cursor, mon_pc, mon_checked, mon_alerts, mon_sent>>

None == <<>>
Some(x) == <<x>>
IsSome(o) == Len(o) = 1
Unwrap(o) == o[1]

(***************************************************************************)
(* Bounds of the model.                                                    *)
(***************************************************************************)
MaxCycles == 2
MaxAttemptsBound == 3
MaxNameLen == 4
\* The longest Duration, in milliseconds, scaled down to the delays of the model.
MaxDurationMs == 1000

(***************************************************************************)
(* Integer arithmetic as Rust does it.                                     *)
(***************************************************************************)

\* i64 `/`: the quotient truncated toward zero (b > 0).
TruncDivCeil(a, b) == -((-a) \div b)
TruncDiv(a, b) == IF a >= 0 THEN a \div b ELSE -((-a) \div b)

\* DateTime::timestamp() of Utc.timestamp_millis_opt(ms): whole seconds, floored.
TimestampOfMillis(ms) == ms \div 1000

(***************************************************************************)
(* The cron crate.  A parsed Schedule is its set of firing instants, given *)
(* as a period and the sorted offsets of the firings inside one period:    *)
(* it fires at t iff (t % period) is one of the offsets.                   *)
(***************************************************************************)
Daily == [period |-> 86400, offsets |-> <<0>>]            \* 0 0 0 * * *
Hourly == [period |-> 3600, offsets |-> <<0>>]            \* 0 0 * * * *
TwiceDaily == [period |-> 86400, offsets |-> <<3600, 7200>>]   \* 0 0 1,2 * * *
EveryMinute == [period |-> 60, offsets |-> <<0>>]         \* 0 * * * * *

Fires(s, t) == \E i \in 1..Len(s.offsets) : (t % s.period) = s.offsets[i]

\* The number of firings at or before t, counted from the first firing of
\* period 0 (which has number 1); firings before it have numbers <= 0.
FiringsUpTo(s, t) ==
    (t \div s.period) * Len(s.offsets)
    + Cardinality({i \in 1..Len(s.offsets) : s.offsets[i] <= t % s.period})

\* The firing with number k.
FiringAt(s, k) ==
    ((k - 1) \div Len(s.offsets)) * s.period
    + s.offsets[((k - 1) % Len(s.offsets)) + 1]

Min(a, b) == IF a <= b THEN a ELSE b

\* The loop
\*     for x in schedule.after(&from).take(limit) {
\*         if x <= now { kept = Some(x) } else { break }
\*     }
\* started with kept = start: schedule.after(&from) yields the firings
\* strictly after `from` in increasing order, so the loop keeps the last of
\* the first `limit` of them that is at or before now.
ScanAfter(s, from, now, limit, start) ==
    LET first == FiringsUpTo(s, from) + 1
        last == FiringsUpTo(s, now)
        taken == Min(limit, last - first + 1)
    IN  IF taken <= 0 THEN start ELSE Some(FiringAt(s, first + taken - 1))

\* Schedule::from_str on the whitespace-separated fields of an expression.
ParseSchedule(fields) ==
    CASE fields = <<"0", "0", "0", "*", "*", "*">> -> Some(Daily)
      [] fields = <<"0", "0", "*", "*", "*", "*">> -> Some(Hourly)
      [] fields = <<"0", "0", "1,2", "*", "*", "*">> -> Some(TwiceDaily)
      [] fields = <<"0", "*", "*", "*", "*", "*">> -> Some(EveryMinute)
      [] OTHER -> None

(***************************************************************************)
(* main.rs                                                                 *)
(***************************************************************************)

\* What client.get(url).send() gives: Ok(resp) with a status, or Err(e).
Response(status) == [ok |-> TRUE, status |-> status, error |-> ""]
TransportError(e) == [ok |-> FALSE, status |-> 0, error |-> e]

\* StatusCode::is_server_error and StatusCode::is_success.
is_client_or_server_error(status) == status >= 400 /\ status <= 599
is_server_error(status) == status >= 500 /\ status <= 599
is_success_or_client_error(status) == status >= 200 /\ status <= 499
is_success(status) == status >= 200 /\ status <= 299

\* The value http_get_with_retries returns: tag "Ok" with the response's
\* status, or tag "Err" with the attempts and the error the message reports
\* (tag "None": not returned yet).
HttpResult(tag, status, attempts, error) ==
    [tag |-> tag, status |-> status, attempts |-> attempts, error |-> error]

NoResult == HttpResult("None", 0, 0, "")

\* `return Ok(resp)`.
ReturnResponseUnlessServerError(status, attempt) ==
    IF is_server_error(status)
    THEN HttpResult("Err", 0, attempt, "server error")
    ELSE HttpResult("Ok", status, 0, "")
ReturnResponse(status, attempt) == HttpResult("Ok", status, 0, "")

\* `return Err(anyhow!("request failed after {} attempts: {}", attempt, e))`.
RequestFailedCountingRetries(attempt, e) == HttpResult("Err", 0, attempt - 1, e)
RequestFailed(attempt, e) == HttpResult("Err", 0, attempt, e)

\* One call of http_get_with_retries: its arguments, the outcomes the
\* upstream gives to the successive requests, and its locals.  requests
\* counts the send() calls, sleeps lists the thread::sleep durations (ms).
HttpCall(upstream, max_attempts, base_delay_ms) ==
    [pc |-> "running", upstream |-> upstream, max_attempts |-> max_attempts,
     base_delay_ms |-> base_delay_ms, attempt |-> 0, delay |-> base_delay_ms,
     requests |-> 0, sleeps |-> <<>>, result |-> NoResult]

HttpReturn(h, attempt, requests, result) ==
    [h EXCEPT !.pc = "done", !.attempt = attempt, !.requests = requests,
              !.result = result]

\* Duration::checked_mul: None when the product is past the longest Duration.
checked_mul(delay, k) ==
    IF delay * k > MaxDurationMs THEN None ELSE Some(delay * k)

\* `thread::sleep(delay); delay = delay.checked_mul(2).unwrap_or(delay); continue`
HttpRetryDoublingFirst(h, attempt, requests) ==
    LET doubled == checked_mul(h.delay, 2)
        delay == IF IsSome(doubled) THEN Unwrap(doubled) ELSE h.delay
    IN  [h EXCEPT !.attempt = attempt, !.requests = requests,
                  !.sleeps = Append(@, delay), !.delay = delay]
HttpRetry(h, attempt, requests) ==
    LET doubled == checked_mul(h.delay, 2)
    IN  [h EXCEPT !.attempt = attempt, !.requests = requests,
                  !.sleeps = Append(@, h.delay),
                  !.delay = IF IsSome(doubled) THEN Unwrap(doubled) ELSE h.delay]

\* `if max_attempts == 0`.
RejectsNoAttempts(max_attempts) == FALSE
RejectsZeroAttempts(max_attempts) == max_attempts = 0

\* The guard `max_attempts == 0`, else one iteration of the loop.
RetryStep(h) ==
    IF RejectsZeroAttempts(h.max_attempts)
    THEN HttpReturn(h, 0, 0, HttpResult("Err", 0, 0, "max_attempts must be >= 1"))
    ELSE LET attempt == h.attempt + 1
             res == h.upstream[attempt]
             requests == h.requests + 1
         IN  IF res.ok
             THEN IF is_server_error(res.status) /\ attempt < h.max_attempts
                  THEN HttpRetry(h, attempt, requests)
                  ELSE HttpReturn(h, attempt, requests,
                                  ReturnResponse(res.status, attempt))
             ELSE IF attempt >= h.max_attempts
                  THEN HttpReturn(h, attempt, requests,
                                  RequestFailed(attempt, res.error))
                  ELSE HttpRetry(h, attempt, requests)

RECURSIVE RunRetries(_)
RunRetries(h) == IF h.pc = "done" THEN h ELSE RunRetries(RetryStep(h))

\* http_get_with_retries run to its return.
http_get_with_retries(upstream, max_attempts, base_delay_ms) ==
    RunRetries(HttpCall(upstream, max_attempts, base_delay_ms))

\* Statuses and transport errors the upstream may answer with.
HttpStatuses == {200, 204, 404, 500, 503}
TransportErrors == {"timeout", "refused"}

SendOutcomes ==
    {Response(st) : st \in HttpStatuses} \cup {TransportError(e) : e \in TransportErrors}

\* The outcomes of the first MaxAttemptsBound requests.
Upstreams == [1..MaxAttemptsBound -> SendOutcomes]

HttpIdle == HttpCall(<<>>, 0, 0)

InitHttpIdle == http = HttpIdle

\* A call http_get_with_retries(client, url, user, pass, max_attempts,
\* base_delay_ms) is entered.
HttpInit ==
    \E upstream \in Upstreams, max_attempts \in 0..MaxAttemptsBound,
       base_delay_ms \in {1, 500, 800} :
        http = HttpCall(upstream, max_attempts, base_delay_ms)

\* `if max_attempts == 0 { return Err(..) }`
HttpRejectZeroAttempts ==
    /\ http.pc = "running"
    /\ http.max_attempts = 0
    /\ http' = RetryStep(http)
    /\ UNCHANGED <<clock, mainVars, monVars, cron, text>>

\* One iteration of the loop that ends in `continue`.
HttpAttemptRetried ==
    /\ http.pc = "running"
    /\ http.max_attempts > 0
    /\ RetryStep(http).pc = "running"
    /\ http' = RetryStep(http)
    /\ UNCHANGED <<clock, mainVars, monVars, cron, text>>

\* One iteration of the loop that ends in `return Ok(resp)`.
HttpAttemptReturnsResponse ==
    /\ http.pc = "running"
    /\ http.max_attempts > 0
    /\ RetryStep(http).pc = "done"
    /\ RetryStep(http).result.tag = "Ok"
    /\ http' = RetryStep(http)
    /\ UNCHANGED <<clock, mainVars, monVars, cron, text>>

\* One iteration of the loop that ends in `return Err(..)`.
HttpAttemptFails ==
    /\ http.pc = "running"
    /\ http.max_attempts > 0
    /\ RetryStep(http).pc = "done"
    /\ RetryStep(http).result.tag = "Err"
    /\ http' = RetryStep(http)
    /\ UNCHANGED <<clock, mainVars, monVars, cron, text>>

\* is_build_failed: the build's result is Option<String>.
is_build_failed_any(result) == IsSome(result)
is_build_failed(result) ==
    IF IsSome(result) THEN Unwrap(result) # "SUCCESS" ELSE FALSE

\* normalize_cron_spec on the fields of the trimmed expression.
normalize_cron_spec(fields) ==
    IF Len(fields) = 5 THEN <<"0">> \o fields ELSE fields

\* The bound of `.take(100)` in should_job_have_run.
TakeLimit == 100

should_job_have_run_half(schedule, now, threshold_minutes) ==
    ScanAfter(schedule, now - threshold_minutes * 30, now, TakeLimit, None)
should_job_have_run_inclusive(schedule, now, threshold_minutes) ==
    ScanAfter(schedule, now - (threshold_minutes * 2) * 60 - 1, now, TakeLimit, None)
should_job_have_run_narrow(schedule, now, threshold_minutes) ==
    ScanAfter(schedule, now - threshold_minutes * 60, now, TakeLimit, None)
\* should_job_have_run: None stands for the Err "Could not find scheduled run
\* time in lookback window".
should_job_have_run(schedule, now, threshold_minutes) ==
    LET lookback == now - (threshold_minutes * 2) * 60
    IN  ScanAfter(schedule, lookback, now, TakeLimit, None)

\* Utc::now() when the process starts: 2025-12-07T00:00:00Z.
StartInstant == 24 * 3600

\* One call should_job_have_run(schedule, now, threshold_minutes) and, once
\* it returned, its result.
CronCall(schedule, now, threshold_minutes, returned, result) ==
    [schedule |-> schedule, now |-> now, threshold_minutes |-> threshold_minutes,
     returned |-> returned, result |-> result]

\* The schedules, instants and thresholds the calls are made with.
CronSchedules == {Daily, Hourly, TwiceDaily, EveryMinute}
CronInstants ==
    {StartInstant + d : d \in {0, 1, 59, 60, 61, 3599, 3600, 5285, 5400, 7200, 10800, 10801}}
CronThresholds == {0, 1, 2, 45, 60, 90, 120}

InitCronIdle == cron = CronCall(Daily, 0, 0, FALSE, None)

CronInit ==
    \E schedule \in CronSchedules, now \in CronInstants,
       threshold_minutes \in CronThresholds :
        cron = CronCall(schedule, now, threshold_minutes, FALSE, None)

\* should_job_have_run runs and returns.
ShouldJobHaveRun ==
    /\ ~cron.returned
    /\ cron' = [cron EXCEPT !.returned = TRUE,
                            !.result = should_job_have_run(cron.schedule, cron.now,
                                                           cron.threshold_minutes)]
    /\ UNCHANGED <<clock, mainVars, monVars, http, text>>

(***************************************************************************)
(* The text functions of main.rs: build_job_api_url,                       *)
(* build_api_url_from_last_build and normalize_cron_spec.                  *)
(*                                                                         *)
(* A &str is the sequence of its pieces; a piece is one character or a run *)
(* of characters none of which the function looks at ("https://ci", "job").*)
(***************************************************************************)
Last(s) == s[Len(s)]
Front(s) == SubSeq(s, 1, Len(s) - 1)

\* str::trim_end_matches(c).
RECURSIVE trim_end_matches(_, _)
trim_end_matches(s, c) ==
    IF s # <<>> /\ Last(s) = c THEN trim_end_matches(Front(s), c) ELSE s

\* str::split(sep): the parts between the separators, empty parts included.
split_never(s, sep) == <<s>>
RECURSIVE split(_, _)
split(s, sep) ==
    IF \A i \in 1..Len(s) : s[i] # sep
    THEN <<s>>
    ELSE LET i == CHOOSE k \in 1..Len(s) :
                      s[k] = sep /\ \A j \in 1..(k - 1) : s[j] # sep
         IN  <<SubSeq(s, 1, i - 1)>> \o split(SubSeq(s, i + 1, Len(s)), sep)

\* urlencoding::encode: every byte but the unreserved ones becomes %XX.
PercentEncoded(c) ==
    IF c = " " THEN "%20"
    ELSE IF c = "/" THEN "%2F"
    ELSE IF c = "%" THEN "%25"
    ELSE c
urlencoding_encode(part) == [i \in 1..Len(part) |-> PercentEncoded(part[i])]

\* build_job_api_url(base_url, job_name).
RECURSIVE PushJobParts(_, _)
PushJobParts(url, parts) ==
    IF parts = <<>> THEN url
    ELSE PushJobParts(url \o <<"/job/">> \o urlencoding_encode(Head(parts)),
                      Tail(parts))
build_job_api_url(base_url, job_name) ==
    LET url == trim_end_matches(base_url, "/")
    IN  PushJobParts(url, split(job_name, "/")) \o <<"/api/json">>

\* The text of an absolute or relative URL, by its components: scheme ("" when
\* the text has none), host, port ("" when the text has none), the segments
\* of the path (each a string) and whether the text ends with '/'.
UrlText(scheme, host, port, path, slash) ==
    [scheme |-> scheme, host |-> host, port |-> port, path |-> path, slash |-> slash]

\* `if !base.ends_with('/') { base.push('/') }`.
KeepAsReturned(t) == t
EnsureTrailingSlash(t) == [t EXCEPT !.slash = TRUE]

\* `.replace(' ', "%20")`.
ReplaceSpace(c) == IF c = " " THEN "%20" ELSE c
ReplaceSpaces(t) ==
    [t EXCEPT !.path = [i \in 1..Len(t.path) |->
                           [j \in 1..Len(t.path[i]) |-> ReplaceSpace(t.path[i][j])]]]

\* url::Url::parse: a text without a scheme is an Err (None); the host is
\* lower-cased, the default port of the scheme is dropped, a space of the
\* path is percent-encoded and an empty path is "/".
DefaultPort(scheme) ==
    IF scheme = "https" THEN "443" ELSE IF scheme = "http" THEN "80" ELSE ""
AsciiLower(host) == IF host = "CI.EXAMPLE.COM" THEN "ci.example.com" ELSE host
UrlParse(t) ==
    IF t.scheme = ""
    THEN None
    ELSE Some([scheme |-> t.scheme,
               host |-> AsciiLower(t.host),
               port |-> IF t.port = DefaultPort(t.scheme) THEN "" ELSE t.port,
               path |-> ReplaceSpaces(t).path,
               slash |-> t.slash \/ t.path = <<>>])

\* Url::join of a relative path: it replaces what follows the last '/' of
\* the path of the base.
UrlJoinRelative(u, segments) ==
    [u EXCEPT !.path = (IF u.slash THEN u.path ELSE Front(u.path)) \o segments,
              !.slash = FALSE]
\* Url::join of an absolute path: it replaces the whole path of the base.
UrlJoinAbsolute(u, path, slash) ==
    [u EXCEPT !.path = path, !.slash = slash \/ path = <<>>]

\* Url -> String.
RECURSIVE PathToString(_)
PathToString(path) ==
    IF path = <<>> THEN <<>>
    ELSE <<"/">> \o Head(path) \o PathToString(Tail(path))
UrlToString(u) ==
    <<u.scheme, "://", u.host>>
    \o (IF u.port = "" THEN <<>> ELSE <<":", u.port>>)
    \o PathToString(u.path)
    \o (IF u.slash THEN <<"/">> ELSE <<>>)

\* What a text function returned: Ok(value) or Err(context).
TextOk(value) == [tag |-> "Ok", value |-> value]
TextErr(context) == [tag |-> "Err", value |-> <<context>>]
NoText == [tag |-> "None", value |-> <<>>]

ApiJson == << <<"api">>, <<"json">> >>

\* `u.scheme() == cfg.scheme() && u.host_str() == cfg.host_str()`.
SameHost(u, cfg) == u.host = cfg.host
SameSchemeAndHost(u, cfg) == u.scheme = cfg.scheme /\ u.host = cfg.host

\* Either arm of `match url::Url::parse(&base)` once the returned URL is
\* parsed: the URL itself when scheme and host are those of the configured
\* base, else its path joined to the configured base.
Reconcile(u, configured_base) ==
    LET cfg_parsed == UrlParse(configured_base)
    IN  IF IsSome(cfg_parsed) /\ SameSchemeAndHost(u, Unwrap(cfg_parsed))
        THEN TextOk(UrlToString(UrlJoinRelative(u, ApiJson)))
        ELSE LET safe_path_slash == TRUE
             IN  IF ~IsSome(cfg_parsed)
                 THEN TextErr("Invalid configured Jenkins base URL")
                 ELSE LET joined == UrlJoinAbsolute(Unwrap(cfg_parsed), u.path,
                                                    safe_path_slash)
                      IN  TextOk(UrlToString(UrlJoinRelative(joined, ApiJson)))

\* build_api_url_from_last_build(raw, configured_base).
build_api_url_from_last_build(raw, configured_base) ==
    LET base == EnsureTrailingSlash(raw)
        first == UrlParse(base)
    IN  IF IsSome(first)
        THEN Reconcile(Unwrap(first), configured_base)
        ELSE LET parsed == UrlParse(ReplaceSpaces(base))
             IN  IF ~IsSome(parsed)
                 THEN TextErr("Invalid build URL from Jenkins")
                 ELSE Reconcile(Unwrap(parsed), configured_base)

\* char::is_whitespace, str::trim and str::split_whitespace.
is_whitespace(c) == c \in {" ", "\t"}
RECURSIVE trim_start(_)
trim_start(s) ==
    IF s # <<>> /\ is_whitespace(Head(s)) THEN trim_start(Tail(s)) ELSE s
RECURSIVE trim_end(_)
trim_end(s) ==
    IF s # <<>> /\ is_whitespace(Last(s)) THEN trim_end(Front(s)) ELSE s
trim(s) == trim_end(trim_start(s))
RECURSIVE split_whitespace(_)
split_whitespace(s) ==
    LET t == trim_start(s)
    IN  IF t = <<>> THEN <<>>
        ELSE LET n == IF \E k \in 1..Len(t) : is_whitespace(t[k])
                      THEN (CHOOSE k \in 1..Len(t) :
                                is_whitespace(t[k])
                                /\ \A j \in 1..(k - 1) : ~is_whitespace(t[j])) - 1
                      ELSE Len(t)
             IN  <<SubSeq(t, 1, n)>> \o split_whitespace(SubSeq(t, n + 1, Len(t)))

\* normalize_cron_spec(spec) on the text of the expression.
normalize_cron_text_upto5(spec) ==
    LET s == trim(spec)
        parts == split_whitespace(s)
    IN  IF Len(parts) <= 5 THEN <<"0", " ">> \o s ELSE s
normalize_cron_text(spec) ==
    LET s == trim(spec)
        parts == split_whitespace(s)
    IN  IF Len(parts) = 5 THEN <<"0", " ">> \o s ELSE s

\* One call of a text function and, once it returned, its result.
TextCall(fn, args, returned, result) ==
    [fn |-> fn, args |-> args, returned |-> returned, result |-> result]

\* lastBuild.url as the upstream returns it.
RawPaths ==
    {<<>>,
     << <<"job">>, <<"x">>, <<"15">> >>,
     << <<"job">>, <<"my", " ", "folder">>, <<"15">> >>}
RawUrls ==
    {UrlText(scheme, host, port, path, slash) :
        scheme \in {"http", "https", ""},
        host \in {"ci.example.com", "CI.EXAMPLE.COM", "10.0.0.5"},
        port \in {"", "443", "8080"},
        path \in RawPaths,
        slash \in BOOLEAN}

\* jenkins.url of config.toml, for build_api_url_from_last_build.
ConfiguredBases ==
    {UrlText("https", "ci.example.com", "", <<>>, TRUE),
     UrlText("https", "ci.example.com", "", <<>>, FALSE),
     UrlText("http", "ci.example.com", "8080", << <<"jenkins">> >>, TRUE),
     UrlText("", "ci.example.com", "", <<>>, FALSE)}

\* jenkins.url of config.toml, for build_job_api_url.
BaseUrls ==
    {<<"https://ci.example.com">>,
     <<"https://ci.example.com", "/">>,
     <<"https://ci.example.com", "/", "/">>,
     <<"https://ci.example.com", "/", "jenkins", "/">>}

\* The job names of config.toml: up to MaxNameLen characters.
NameChars == {"a", " ", "%", "/"}
JobNameTexts == UNION {[1..n -> NameChars] : n \in 0..MaxNameLen}

\* The cron expressions: n fields, with or without surrounding whitespace,
\* separated by one or two blanks or a tab.
CronFieldTexts == <<"0", "2", "*", "*", "*", "*", "*">>
RECURSIVE CronText(_, _)
CronText(n, sep) ==
    IF n = 0 THEN <<>>
    ELSE IF n = 1 THEN <<CronFieldTexts[1]>>
    ELSE CronText(n - 1, sep) \o sep \o <<CronFieldTexts[n]>>
CronTexts ==
    {lead \o CronText(n, sep) \o trail :
        n \in 0..7,
        sep \in {<<" ">>, <<" ", " ">>, <<"\t">>},
        lead \in {<<>>, <<" ">>},
        trail \in {<<>>, <<" ">>, <<"\t", " ">>}}

TextIdle == TextCall("none", <<>>, FALSE, NoText)
InitTextIdle == text = TextIdle

TextInit ==
    \/ \E base_url \in BaseUrls, job_name \in JobNameTexts :
         text = TextCall("build_job_api_url",
                         [base_url |-> base_url, job_name |-> job_name],
                         FALSE, NoText)
    \/ \E raw \in RawUrls, configured_base \in ConfiguredBases :
         text = TextCall("build_api_url_from_last_build",
                         [raw |-> raw, configured_base |-> configured_base],
                         FALSE, NoText)
    \/ \E spec \in CronTexts :
         text = TextCall("normalize_cron_spec", [spec |-> spec], FALSE, NoText)

\* build_job_api_url runs and returns.
BuildJobApiUrl ==
    /\ text.fn = "build_job_api_url"
    /\ ~text.returned
    /\ text' = [text EXCEPT !.returned = TRUE,
                            !.result = TextOk(build_job_api_url(text.args.base_url,
                                                                text.args.job_name))]
    /\ UNCHANGED <<clock, mainVars, monVars, http, cron>>

\* build_api_url_from_last_build runs and returns.
BuildApiUrlFromLastBuild ==
    /\ text.fn = "build_api_url_from_last_build"
    /\ ~text.returned
    /\ text' = [text EXCEPT !.returned = TRUE,
                            !.result = build_api_url_from_last_build(
                                           text.args.raw, text.args.configured_base)]
    /\ UNCHANGED <<clock, mainVars, monVars, http, cron>>

\* normalize_cron_spec runs and returns.
NormalizeCronSpec ==
    /\ text.fn = "normalize_cron_spec"
    /\ ~text.returned
    /\ text' = [text EXCEPT !.returned = TRUE,
                            !.result = TextOk(normalize_cron_text(text.args.spec))]
    /\ UNCHANGED <<clock, mainVars, monVars, http, cron>>

\* The comparison of check_job: true when the job is overdue.
IsOverdueAtLeast(minutes_since_build, minutes_since_scheduled, threshold_minutes) ==
    minutes_since_build >= minutes_since_scheduled + threshold_minutes
IsOverdueUnlessReported(minutes_since_build, minutes_since_scheduled, threshold_minutes) ==
    /\ checked.alert # "overdue"
    /\ minutes_since_build > minutes_since_scheduled + threshold_minutes
IsOverdue(minutes_since_build, minutes_since_scheduled, threshold_minutes) ==
    minutes_since_build > minutes_since_scheduled + threshold_minutes

\* What one call of check_job returns and the values it computed on the way.
\*   tag "Ok": Ok(healthy); tag "Err": Err(err).
Verdict(tag, healthy, err, path, msb, expected, mss) ==
    [tag |-> tag, healthy |-> healthy, err |-> err, path |-> path,
     minutes_since_build |-> msb, expected |-> expected,
     minutes_since_scheduled |-> mss]

EvalSchedule(now, schedule, threshold_minutes, minutes_since_build) ==
    LET most_recent_scheduled == should_job_have_run(schedule, now, threshold_minutes)
    IN  IF ~IsSome(most_recent_scheduled)
        THEN Verdict("Err", FALSE, "lookback", "schedule",
                     minutes_since_build, None, 0)
        ELSE LET minutes_since_scheduled ==
                     TruncDiv(now - Unwrap(most_recent_scheduled), 60)
             IN  Verdict("Ok",
                         ~IsOverdue(minutes_since_build, minutes_since_scheduled,
                                    threshold_minutes),
                         "", "schedule", minutes_since_build,
                         most_recent_scheduled, minutes_since_scheduled)

NeverBuilt == Verdict("Ok", FALSE, "", "never_built", 0, None, 0)

FailedBuildBySchedule(now, schedule, threshold_minutes, minutes_since_build) ==
    EvalSchedule(now, schedule, threshold_minutes, minutes_since_build)
FailedBuild(now, schedule, threshold_minutes, minutes_since_build) ==
    Verdict("Ok", FALSE, "", "failed_build", minutes_since_build, None, 0)

\* check_job(job_name, schedule, threshold_minutes) at now = Utc::now().
\*   summary: the outcome of the job request (after retries) and its JSON.
\*   details: the outcome of the build request (after retries) and its JSON.
check_job(now, schedule, threshold_minutes, summary, details) ==
    IF summary.tag # "ok"
    THEN Verdict("Err", FALSE, summary.tag, "summary", 0, None, 0)
    ELSE IF ~summary.has_last_build
    THEN NeverBuilt
    ELSE IF ~summary.url_ok
    THEN Verdict("Err", FALSE, "url", "build_url", 0, None, 0)
    ELSE IF details.tag # "ok"
    THEN Verdict("Err", FALSE, details.tag, "details", 0, None, 0)
    ELSE LET build_time == TimestampOfMillis(details.timestamp)
             minutes_since_build == TruncDiv(now - build_time, 60)
         IN  IF is_build_failed(details.result)
             THEN FailedBuild(now, schedule, threshold_minutes, minutes_since_build)
             ELSE EvalSchedule(now, schedule, threshold_minutes, minutes_since_build)

\* general.check_interval_seconds (its serde default).
CheckIntervalSeconds == 60

\* Utc::now() at the calls the model makes.
Instants == {86400, 91685, 93600, 97200}

\* Utc::now() read at or after `from`: one of Instants, and `from` itself
\* once they are all in the past.
NowChoices(from) ==
    LET later == {t \in Instants : t >= from}
    IN  IF later = {} THEN {from} ELSE later

\* BuildDetails.timestamp values the upstream may report (ms since T0).
BuildStamps == {0, 80940999, 80941000, 86400000, 93630000}

\* BuildDetails.result values the upstream may report.
BuildResults == {None, Some("SUCCESS"), Some("FAILURE"), Some("UNSTABLE"), Some("")}

NoDetails == [tag |-> "unused", status |-> 0, timestamp |-> 0, result |-> None]

\* The arguments check_job passes to http_get_with_retries.
CheckMaxAttempts == 3
CheckBaseDelayMs == 500

\* What the upstream answers to the requests of one http_get_with_retries
\* call of check_job: a 200 at once; two 5xx then a 200; a 404; 5xx on every
\* attempt; a transport failure on every attempt.
CheckUpstreams ==
    {<<Response(200), Response(200), Response(200)>>,
     <<Response(500), Response(503), Response(200)>>,
     <<Response(404), Response(200), Response(200)>>,
     <<Response(500), Response(500), Response(503)>>,
     <<TransportError("timeout"), TransportError("timeout"), TransportError("refused")>>}

\* The results of those calls.
CheckFetches ==
    {http_get_with_retries(u, CheckMaxAttempts, CheckBaseDelayMs).result :
        u \in CheckUpstreams}

\* How check_job goes on after http_get_with_retries(..).context(..)? and
\* `if !response.status().is_success()`: "transport" (the Err is returned),
\* "status" (the error-status Err is returned) or "ok" (the body is parsed).
FetchTag(fetched) ==
    IF fetched.tag = "Err" THEN "transport"
    ELSE IF ~is_success(fetched.status) THEN "status"
    ELSE "ok"

\* The job request: transport failure after retries, a non-2xx final status,
\* a body that is not a JenkinsJob, or a JenkinsJob with or without lastBuild
\* (url_ok: build_api_url_from_last_build accepts lastBuild.url).
SummaryOutcomes ==
    UNION {IF FetchTag(f) # "ok"
           THEN {[tag |-> FetchTag(f), status |-> f.status,
                  has_last_build |-> FALSE, url_ok |-> FALSE]}
           ELSE {[tag |-> "json", status |-> f.status,
                  has_last_build |-> FALSE, url_ok |-> FALSE],
                 [tag |-> "ok", status |-> f.status,
                  has_last_build |-> FALSE, url_ok |-> FALSE],
                 [tag |-> "ok", status |-> f.status,
                  has_last_build |-> TRUE, url_ok |-> FALSE],
                 [tag |-> "ok", status |-> f.status,
                  has_last_build |-> TRUE, url_ok |-> TRUE]} :
           f \in CheckFetches}

\* The build request, likewise.
DetailsOutcomes ==
    UNION {IF FetchTag(f) # "ok"
           THEN {[tag |-> FetchTag(f), status |-> f.status,
                  timestamp |-> 0, result |-> None]}
           ELSE {[tag |-> "json", status |-> f.status,
                  timestamp |-> 0, result |-> None]}
                \cup {[tag |-> "ok", status |-> f.status,
                       timestamp |-> ts, result |-> r] :
                         ts \in BuildStamps, r \in BuildResults} :
           f \in CheckFetches}

\* fetch_job_schedule: Err, or the <spec> text of config.xml (its fields).
FetchedSchedules ==
    {None, Some(<<"0", "0", "*", "*", "*">>), Some(<<"H/15", "*", "*", "*", "*">>)}

JobConf(name, schedule, threshold, alert_on_error) ==
    [name |-> name, schedule |-> schedule,
     alert_threshold_minutes |-> threshold, alert_on_error |-> alert_on_error]

\* The config.toml files the model starts from.
Configs ==
    {[alert_on_check_error |-> TRUE,
      job |-> <<JobConf("nightly", Some(<<"0", "0", "0", "*", "*", "*">>), 90, None),
                JobConf("hourly", Some(<<"0", "*", "*", "*", "*">>), 45, Some(FALSE))>>],
     [alert_on_check_error |-> FALSE,
      job |-> <<JobConf("discovered", None, 90, Some(TRUE)),
                JobConf("bad", Some(<<"bogus">>), 60, None)>>],
     [alert_on_check_error |-> TRUE,
      job |-> <<JobConf("minutely", Some(<<"0", "*", "*", "*", "*", "*">>), 90, None),
                JobConf("twice", Some(<<"0", "0", "1,2", "*", "*", "*">>), 0, None)>>],
     [alert_on_check_error |-> TRUE,
      job |-> <<JobConf("nightly", Some(<<"0", "0", "0", "*", "*", "*">>), 90, None),
                JobConf("nightly-mirror", Some(<<"0", "0", "*", "*", "*">>), 90, None)>>]}

NoVerdict == Verdict("None", FALSE, "", "none", 0, None, 0)

NoSummary == [tag |-> "unused", status |-> 0, has_last_build |-> FALSE, url_ok |-> FALSE]

\* What one iteration of the loop of monitor_jobs did: the job, how far it
\* got (phase), the inputs of check_job, its result, the alert sent ("none",
\* "overdue" or "error") and whether send_email_alert returned Ok.
Checked(job, phase, now, schedule, threshold, summary, details, verdict, alert, delivered) ==
    [job |-> job, phase |-> phase, now |-> now, schedule |-> schedule,
     threshold |-> threshold, summary |-> summary, details |-> details,
     verdict |-> verdict, alert |-> alert, delivered |-> delivered]

JobNames(conf) == {conf.job[i].name : i \in 1..Len(conf.job)}

\* The instants of the two most recent send_email_alert calls for a job.
KeepLastTwo(sent, at) ==
    IF Len(sent) < 2 THEN Append(sent, at) ELSE <<sent[2], at>>

\* `match check_job(..)` in monitor_jobs: which alert is sent for a result.
AlertOnVerdictIgnoringOverride(verdict, job_config, general) ==
    IF verdict.tag = "Ok"
    THEN IF ~verdict.healthy THEN "overdue" ELSE "none"
    ELSE IF general THEN "error" ELSE "none"
AlertOnVerdictOncePerHour(verdict, job_config, general) ==
    IF verdict.tag = "Ok"
    THEN IF ~verdict.healthy
         THEN IF emails[job_config.name] # <<>>
                 /\ clock - emails[job_config.name][Len(emails[job_config.name])] <= 3600
              THEN "none" ELSE "overdue"
         ELSE "none"
    ELSE LET should_alert ==
                 IF IsSome(job_config.alert_on_error)
                 THEN Unwrap(job_config.alert_on_error)
                 ELSE general
         IN  IF should_alert THEN "error" ELSE "none"
AlertOnVerdict(verdict, job_config, general) ==
    IF verdict.tag = "Ok"
    THEN IF ~verdict.healthy THEN "overdue" ELSE "none"
    ELSE LET should_alert ==
                 IF IsSome(job_config.alert_on_error)
                 THEN Unwrap(job_config.alert_on_error)
                 ELSE general
         IN  IF should_alert THEN "error" ELSE "none"

\* How one iteration of the loop of monitor_jobs ended.
Outcome(c) ==
    IF c.phase \in {"no_schedule", "invalid_schedule"} THEN c.phase
    ELSE IF c.alert # "none" /\ ~c.delivered THEN "delivery_failed"
    ELSE IF c.verdict.tag = "Err"
    THEN IF c.verdict.err = "lookback" THEN "evaluation_error" ELSE "retrieval_error"
    ELSE "evaluated"

\* The iterations of the current run of monitor_jobs, in order (of the last
\* run while main sleeps).
HandledAfter(log, at, c) ==
    LET entry == [job |-> c.job, outcome |-> Outcome(c), alert |-> c.alert]
    IN  IF at = 1 THEN <<entry>> ELSE Append(log, entry)

\* The index of the job the `for` loop of monitor_jobs takes after an
\* iteration on job number `at` of n: the next one, however the iteration
\* ended (`continue`, a logged error, a failed send_email_alert).
AfterIterationAbortOnError(at, c, n) ==
    IF Outcome(c) = "evaluated" THEN at + 1 ELSE n + 1
AfterIteration(at, c, n) == at + 1

InitMonitorIdle ==
    /\ mon_conf = <<>>
    /\ job_states = <<>>
    /\ mon_cursor = 0
    /\ mon_pc = "idle"
    /\ mon_checked = <<>>
    /\ mon_alerts = <<>>
    /\ mon_sent = <<>>

Init ==
    /\ clock = StartInstant
    /\ app_conf \in Configs
    /\ cursor = 1
    /\ cycle = 0
    /\ checked = Checked("", "init", clock, None, 0, NoSummary, NoDetails,
                         NoVerdict, "none", TRUE)
    /\ emails = [j \in JobNames(app_conf) |-> <<>>]
    /\ handled = <<>>
    /\ InitMonitorIdle
    /\ InitHttpIdle
    /\ InitCronIdle
    /\ InitTextIdle

\* The schedule string of a job: the configured one, else the fetched one.
ScheduleStr(job_config, fetched) ==
    IF IsSome(job_config.schedule) THEN job_config.schedule ELSE fetched

FetchChoices(job_config) ==
    IF IsSome(job_config.schedule) THEN {None} ELSE FetchedSchedules

\* monitor_jobs, one iteration of `for job_config in &APP_CONF.job`, when the
\* schedule cannot be determined (fetch_job_schedule fails): continue.
MonitorJobNoSchedule ==
    /\ cycle < MaxCycles
    /\ cursor <= Len(app_conf.job)
    /\ LET job_config == app_conf.job[cursor]
       IN  \E fetched \in FetchChoices(job_config) :
             /\ ~IsSome(ScheduleStr(job_config, fetched))
             /\ checked' = Checked(job_config.name, "no_schedule", clock, None,
                                   job_config.alert_threshold_minutes,
                                   NoSummary, NoDetails, NoVerdict, "none", TRUE)
    /\ handled' = HandledAfter(handled, cursor, checked')
    /\ cursor' = AfterIteration(cursor, checked', Len(app_conf.job))
    /\ UNCHANGED <<clock, app_conf, cycle, emails>>
    /\ UNCHANGED monVars
    /\ UNCHANGED <<http, cron, text>>

\* monitor_jobs, one iteration, when Schedule::from_str rejects the
\* normalized expression: continue.
MonitorJobInvalidSchedule ==
    /\ cycle < MaxCycles
    /\ cursor <= Len(app_conf.job)
    /\ LET job_config == app_conf.job[cursor]
       IN  \E fetched \in FetchChoices(job_config) :
             LET schedule_str == ScheduleStr(job_config, fetched)
             IN  /\ IsSome(schedule_str)
                 /\ ~IsSome(ParseSchedule(normalize_cron_spec(Unwrap(schedule_str))))
                 /\ checked' = Checked(job_config.name, "invalid_schedule", clock,
                                       None, job_config.alert_threshold_minutes,
                                       NoSummary, NoDetails, NoVerdict, "none", TRUE)
    /\ handled' = HandledAfter(handled, cursor, checked')
    /\ cursor' = AfterIteration(cursor, checked', Len(app_conf.job))
    /\ UNCHANGED <<clock, app_conf, cycle, emails>>
    /\ UNCHANGED monVars
    /\ UNCHANGED <<http, cron, text>>

\* monitor_jobs, one iteration with a valid schedule: check_job at
\* now = Utc::now(), then the alert its result asks for.
MonitorJobCheck ==
    /\ cycle < MaxCycles
    /\ cursor <= Len(app_conf.job)
    /\ LET job_config == app_conf.job[cursor]
       IN  \E fetched \in FetchChoices(job_config) :
             LET schedule_str == ScheduleStr(job_config, fetched)
                 parsed == IF IsSome(schedule_str)
                           THEN ParseSchedule(normalize_cron_spec(Unwrap(schedule_str)))
                           ELSE None
             IN  /\ IsSome(parsed)
                 /\ \E now \in NowChoices(clock),
                       summary \in SummaryOutcomes :
                      \E details \in
                            (IF summary.tag = "ok" /\ summary.has_last_build
                                /\ summary.url_ok
                             THEN DetailsOutcomes ELSE {NoDetails}) :
                        LET verdict == check_job(now, Unwrap(parsed),
                                           job_config.alert_threshold_minutes,
                                           summary, details)
                            alert == AlertOnVerdict(verdict, job_config,
                                                    app_conf.alert_on_check_error)
                        IN  \E delivered \in
                                  (IF alert = "none" THEN {TRUE} ELSE BOOLEAN) :
                              /\ clock' = now
                              /\ checked' = Checked(job_config.name, "checked", now,
                                              parsed,
                                              job_config.alert_threshold_minutes,
                                              summary, details, verdict, alert,
                                              delivered)
                              /\ emails' =
                                    IF alert = "none" THEN emails
                                    ELSE [emails EXCEPT ![job_config.name] =
                                              KeepLastTwo(@, now)]
    /\ handled' = HandledAfter(handled, cursor, checked')
    /\ cursor' = AfterIteration(cursor, checked', Len(app_conf.job))
    /\ UNCHANGED <<app_conf, cycle>>
    /\ UNCHANGED monVars
    /\ UNCHANGED <<http, cron, text>>

\* main: monitor_jobs has returned; thread::sleep(check_interval_seconds).
Sleep ==
    /\ cycle < MaxCycles
    /\ cursor > Len(app_conf.job)
    /\ \E t \in NowChoices(clock + CheckIntervalSeconds) : clock' = t
    /\ cursor' = 1
    /\ cycle' = cycle + 1
    /\ UNCHANGED <<app_conf, checked, emails, handled>>
    /\ UNCHANGED monVars
    /\ UNCHANGED <<http, cron, text>>

Next ==
    \/ MonitorJobNoSchedule
    \/ MonitorJobInvalidSchedule
    \/ MonitorJobCheck
    \/ Sleep

Spec == Init /\ [][Next]_vars

\* main is one thread that never blocks for ever: every request is bounded
\* by its timeout and retries, every sleep ends.
FairSpec == Spec /\ WF_vars(Next)

(***************************************************************************)
(* monitor.rs                                                              *)
(***************************************************************************)

\* Duration::days(7) and Duration::hours(1), in seconds.
SevenDays == 604800
Cooldown == 3600

\* Utc::now() at the ticks of Monitor::run the model takes.
MonInstants == {86400, 88200, 89940, 91800, 91860}

\* JenkinsClient::get_last_build: Err is None; Ok(b) is Some(b), b being
\* Option<LastBuildInfo> with timestamp in ms since T0.
LastBuildInfo(timestamp, result) == [timestamp |-> timestamp, result |-> result]

LastBuildOutcomes ==
    {None, Some(None)}
    \cup {Some(Some(LastBuildInfo(ts, r))) :
            ts \in {0, 86400000}, r \in {Some("SUCCESS"), Some("FAILURE")}}

MonJobConf(name, enabled, expected_schedule, alert_threshold_mins) ==
    [name |-> name, enabled |-> enabled, expected_schedule |-> expected_schedule,
     alert_threshold_mins |-> alert_threshold_mins]

\* The config.jobs lists the model starts from.
MonConfigs ==
    {<<MonJobConf("nightly", TRUE, <<"0", "0", "0", "*", "*", "*">>, 20),
       MonJobConf("legacy", TRUE, <<"0", "0", "*", "*", "*">>, 60),
       MonJobConf("paused", FALSE, <<"0", "0", "*", "*", "*", "*">>, 60)>>,
     <<MonJobConf("hourly", TRUE, <<"0", "0", "*", "*", "*", "*">>, 45),
       MonJobConf("nightly", TRUE, <<"0", "0", "0", "*", "*", "*">>, 20)>>,
     <<MonJobConf("minutely", TRUE, <<"0", "*", "*", "*", "*", "*">>, 5)>>}

MonJobNames(jobs) == {jobs[i].name : i \in 1..Len(jobs)}

\* Monitor::calculate_expected_run_time after Schedule::from_str succeeded.
\* schedule.upcoming(Utc) is schedule.after(&Utc::now()), read at `wall`.
calculate_expected_run_time(schedule, now, wall) ==
    LET upcoming == ScanAfter(schedule, wall, now, 10, Some(now))
    IN  IF Unwrap(upcoming) = now
        THEN ScanAfter(schedule, now - SevenDays, now, 1000, upcoming)
        ELSE upcoming

\* `let should_alert = ...` of Monitor::check_job; build timestamps are in
\* milliseconds, the other instants in seconds.
ShouldAlert(current_build, now, expected_run_time, threshold_mins) ==
    IF IsSome(current_build)
    THEN /\ (now - expected_run_time) > threshold_mins * 60
         /\ Unwrap(current_build).timestamp < expected_run_time * 1000
    ELSE (now - expected_run_time) > threshold_mins * 60

\* `let should_send_alert = ...` of Monitor::check_job.
ShouldSendAlertAtCooldown(should_alert, last_alert_sent, now) ==
    IF should_alert
    THEN IF IsSome(last_alert_sent)
         THEN (now - Unwrap(last_alert_sent)) >= Cooldown
         ELSE TRUE
    ELSE FALSE
ShouldSendAlert(should_alert, last_alert_sent, now) ==
    IF should_alert
    THEN IF IsSome(last_alert_sent)
         THEN (now - Unwrap(last_alert_sent)) > Cooldown
         ELSE TRUE
    ELSE FALSE

JobState(last_check, last_build_info, last_alert_sent) ==
    [last_check |-> last_check, last_build_info |-> last_build_info,
     last_alert_sent |-> last_alert_sent]

\* job_states.entry(name).or_insert_with(..)
EntryOrInsert(entry, now) ==
    IF IsSome(entry) THEN Unwrap(entry) ELSE JobState(now, None, None)

\* "Update state": last_check and last_build_info.
UpdateStateForgetAlert(state, now, current_build) ==
    [state EXCEPT !.last_check = now, !.last_build_info = current_build,
                  !.last_alert_sent = None]
UpdateStateSinceLastBuild(state, now, current_build) ==
    [state EXCEPT !.last_check = IF IsSome(current_build)
                                 THEN Unwrap(current_build).timestamp \div 1000
                                 ELSE now,
                  !.last_build_info = current_build]
UpdateState(state, now, current_build) ==
    [state EXCEPT !.last_check = now, !.last_build_info = current_build]

\* "Update last alert time", reached when send_alert returned Ok.
RecordAlertSentNever(state, now, delivered) == state
RecordAlertSentRegardless(state, now, delivered) ==
    [state EXCEPT !.last_alert_sent = Some(now)]
RecordAlertSent(state, now, delivered) ==
    IF delivered THEN [state EXCEPT !.last_alert_sent = Some(now)] ELSE state

\* job_states after check_job(job) wrote `entry` through the `state` it got
\* from job_states.entry(job): the entry of that job, no other.
StatesAfterTouchingAll(states, job, entry) ==
    [j \in DOMAIN states |->
        IF j = job THEN Some(entry)
        ELSE IF IsSome(states[j])
        THEN Some([Unwrap(states[j]) EXCEPT !.last_check = entry.last_check])
        ELSE states[j]]
StatesAfter(states, job, entry) == [states EXCEPT ![job] = Some(entry)]

\* What one Monitor::check_job call (or the skip of a disabled job) did.
MonChecked(job, phase, now, current_build, expected, should_alert, prior_alert, fired, delivered, requested) ==
    [job |-> job, phase |-> phase, now |-> now, requested |-> requested,
     current_build |-> current_build,
     expected |-> expected, should_alert |-> should_alert,
     prior_alert |-> prior_alert, fired |-> fired, delivered |-> delivered]

\* The alerts of a job's current run of consecutive Overdue ticks: when the
\* run started and last ticked, whether no alert had been sent before it,
\* its ticks, its send_alert calls, the successful ones, and the tick of
\* the first success (0: none yet).
NoRun == [active |-> FALSE, start |-> 0, last |-> 0, fresh |-> FALSE, ticks |-> 0,
          fired |-> 0, delivered |-> 0, first_ok |-> 0]

RunAfter(run, should_alert, now, prior_alert, fired, delivered) ==
    IF ~should_alert
    THEN NoRun
    ELSE LET base == IF run.active THEN run
                     ELSE [NoRun EXCEPT !.active = TRUE, !.start = now,
                                        !.fresh = ~IsSome(prior_alert)]
             ok == fired /\ delivered
         IN  [base EXCEPT !.last = now,
                          !.ticks = @ + 1,
                          !.fired = @ + (IF fired THEN 1 ELSE 0),
                          !.delivered = @ + (IF ok THEN 1 ELSE 0),
                          !.first_ok = IF @ = 0 /\ ok THEN base.ticks + 1 ELSE @]

\* The last send_alert call of a job that returned Ok (at), and whether a
\* tick with should_alert = false has been evaluated for the job since.
NoSent == [at |-> None, healthy_since |-> FALSE]

SentAfter(sent, should_alert, now, fired, delivered) ==
    IF fired /\ delivered
    THEN [at |-> Some(now), healthy_since |-> FALSE]
    ELSE IF ~should_alert
    THEN [sent EXCEPT !.healthy_since = IsSome(sent.at)]
    ELSE sent

InitMainIdle ==
    /\ app_conf = [alert_on_check_error |-> TRUE, job |-> <<>>]
    /\ cursor = 1
    /\ cycle = 0
    /\ checked = <<>>
    /\ emails = <<>>
    /\ handled = <<>>

MonInit ==
    /\ clock = StartInstant
    /\ mon_conf \in MonConfigs
    /\ job_states = [j \in MonJobNames(mon_conf) |-> None]
    /\ mon_cursor = 1
    /\ mon_pc = "connecting"
    /\ mon_checked = MonChecked("", "init", clock, None, None, FALSE, None,
                                FALSE, FALSE, FALSE)
    /\ mon_alerts = [j \in MonJobNames(mon_conf) |-> NoRun]
    /\ mon_sent = [j \in MonJobNames(mon_conf) |-> NoSent]
    /\ InitMainIdle
    /\ InitHttpIdle
    /\ InitCronIdle
    /\ InitTextIdle

\* The index of the job check_all_jobs takes after job number `at` of n:
\* the next one, check_job having returned Ok (ok) or an Err that is logged.
MonAfterJobAbortOnError(at, ok, n) == IF ok THEN at + 1 ELSE n + 1
MonAfterJob(at, ok, n) == at + 1

\* Monitor::run: test_connection() returns Ok and the loop is entered; the
\* first interval.tick() completes at once.
MonConnectionOk ==
    /\ mon_pc = "connecting"
    /\ mon_pc' = "running"
    /\ UNCHANGED <<clock, mon_conf, job_states, mon_cursor, mon_checked, mon_alerts, mon_sent>>
    /\ UNCHANGED mainVars
    /\ UNCHANGED <<http, cron, text>>

\* Monitor::run: test_connection() returns Err (transport failure or a
\* non-2xx status) and `?` returns it from run.
MonConnectionFails ==
    /\ mon_pc = "connecting"
    /\ mon_pc' = "terminated"
    /\ UNCHANGED <<clock, mon_conf, job_states, mon_cursor, mon_checked, mon_alerts, mon_sent>>
    /\ UNCHANGED mainVars
    /\ UNCHANGED <<http, cron, text>>

\* check_all_jobs: a disabled job is skipped.
MonSkipDisabled ==
    /\ mon_pc = "running"
    /\ mon_cursor <= Len(mon_conf)
    /\ ~mon_conf[mon_cursor].enabled
    /\ mon_checked' = MonChecked(mon_conf[mon_cursor].name, "disabled", clock,
                                 None, None, FALSE, None, FALSE, FALSE, FALSE)
    /\ mon_cursor' = MonAfterJob(mon_cursor, TRUE, Len(mon_conf))
    /\ UNCHANGED <<clock, mon_conf, mon_pc, job_states, mon_alerts, mon_sent>>
    /\ UNCHANGED mainVars
    /\ UNCHANGED <<http, cron, text>>

\* Monitor::check_job: get_last_build returns Err, propagated by `?`.
MonCheckJobRetrievalError ==
    /\ mon_pc = "running"
    /\ mon_cursor <= Len(mon_conf)
    /\ mon_conf[mon_cursor].enabled
    /\ LET job_config == mon_conf[mon_cursor]
       IN  /\ mon_checked' = MonChecked(job_config.name, "retrieval_error", clock,
                                        None, None, FALSE, None, FALSE, FALSE, TRUE)
           /\ mon_alerts' = [mon_alerts EXCEPT ![job_config.name] = NoRun]
    /\ mon_cursor' = MonAfterJob(mon_cursor, FALSE, Len(mon_conf))
    /\ UNCHANGED <<clock, mon_conf, mon_pc, job_states, mon_sent>>
    /\ UNCHANGED mainVars
    /\ UNCHANGED <<http, cron, text>>

\* Monitor::check_job: get_last_build returns Ok, then Schedule::from_str
\* fails in calculate_expected_run_time, propagated by `?`.
MonCheckJobInvalidSchedule ==
    /\ mon_pc = "running"
    /\ mon_cursor <= Len(mon_conf)
    /\ mon_conf[mon_cursor].enabled
    /\ LET job_config == mon_conf[mon_cursor]
       IN  /\ ~IsSome(ParseSchedule(job_config.expected_schedule))
           /\ \E got \in LastBuildOutcomes :
                 /\ IsSome(got)
                 /\ mon_checked' = MonChecked(job_config.name, "invalid_schedule",
                                              clock, Unwrap(got), None, FALSE,
                                              None, FALSE, FALSE, TRUE)
           /\ mon_alerts' = [mon_alerts EXCEPT ![job_config.name] = NoRun]
    /\ mon_cursor' = MonAfterJob(mon_cursor, FALSE, Len(mon_conf))
    /\ UNCHANGED <<clock, mon_conf, mon_pc, job_states, mon_sent>>
    /\ UNCHANGED mainVars
    /\ UNCHANGED <<http, cron, text>>

\* Monitor::check_job past both `?`: the overdue decision, the cooldown gate,
\* the state update and send_alert (delivered: it returned Ok).
MonCheckJobEvaluate ==
    /\ mon_pc = "running"
    /\ mon_cursor <= Len(mon_conf)
    /\ mon_conf[mon_cursor].enabled
    /\ LET job_config == mon_conf[mon_cursor]
           now == clock
           parsed == ParseSchedule(job_config.expected_schedule)
       IN  /\ IsSome(parsed)
           /\ \E got \in LastBuildOutcomes :
                 /\ IsSome(got)
                 /\ LET current_build == Unwrap(got)
                        expected_run_time ==
                            Unwrap(calculate_expected_run_time(Unwrap(parsed), now, now))
                        state == EntryOrInsert(job_states[job_config.name], now)
                        should_alert ==
                            ShouldAlert(current_build, now, expected_run_time,
                                        job_config.alert_threshold_mins)
                        should_send_alert ==
                            ShouldSendAlert(should_alert, state.last_alert_sent, now)
                        updated == UpdateState(state, now, current_build)
                    IN  \E delivered \in
                              (IF should_send_alert THEN BOOLEAN ELSE {FALSE}) :
                          /\ job_states' =
                                StatesAfter(job_states, job_config.name,
                                            IF should_send_alert
                                            THEN RecordAlertSent(updated, now, delivered)
                                            ELSE updated)
                          /\ mon_checked' =
                                MonChecked(job_config.name, "evaluated", now,
                                           current_build, Some(expected_run_time),
                                           should_alert, state.last_alert_sent,
                                           should_send_alert, delivered, TRUE)
                          /\ mon_alerts' =
                                [mon_alerts EXCEPT ![job_config.name] =
                                    RunAfter(@, should_alert, now,
                                             state.last_alert_sent,
                                             should_send_alert, delivered)]
                          /\ mon_sent' =
                                [mon_sent EXCEPT ![job_config.name] =
                                    SentAfter(@, should_alert, now,
                                              should_send_alert, delivered)]
    /\ mon_cursor' = MonAfterJob(mon_cursor, ~mon_checked'.fired \/ mon_checked'.delivered, Len(mon_conf))
    /\ UNCHANGED <<clock, mon_conf, mon_pc>>
    /\ UNCHANGED mainVars
    /\ UNCHANGED <<http, cron, text>>

\* Monitor::run: interval.tick() fires and check_all_jobs reads now.
MonTick ==
    /\ mon_pc = "running"
    /\ mon_cursor > Len(mon_conf)
    /\ \E t \in MonInstants :
         /\ t > clock
         /\ clock' = t
    /\ mon_cursor' = 1
    /\ UNCHANGED <<mon_conf, mon_pc, job_states, mon_checked, mon_alerts, mon_sent>>
    /\ UNCHANGED mainVars
    /\ UNCHANGED <<http, cron, text>>

MonNext ==
    \/ MonConnectionOk
    \/ MonConnectionFails
    \/ MonSkipDisabled
    \/ MonCheckJobRetrievalError
    \/ MonCheckJobInvalidSchedule
    \/ MonCheckJobEvaluate
    \/ MonTick

MonitorSpec == MonInit /\ [][MonNext]_vars

\* Monitor::run is one task: its awaits (requests with a timeout, the
\* interval timer) complete.
FairMonitorSpec == MonitorSpec /\ WF_vars(MonNext)

(***************************************************************************)
(* http_get_with_retries (main.rs) on its own.                             *)
(***************************************************************************)
RetryInit ==
    /\ clock = StartInstant
    /\ HttpInit
    /\ InitCronIdle
    /\ InitTextIdle
    /\ InitMainIdle
    /\ InitMonitorIdle

RetryNext ==
    \/ HttpRejectZeroAttempts
    \/ HttpAttemptRetried
    \/ HttpAttemptReturnsResponse
    \/ HttpAttemptFails

RetrySpec == RetryInit /\ [][RetryNext]_vars

\* The call runs on: the thread is not suspended for ever between two
\* iterations of the loop.
FairRetrySpec == RetrySpec /\ WF_vars(RetryNext)

\* The first k requests of the call are answered by 5xx responses.
ServerErrorsFirst(k) ==
    \A i \in 1..k : http.upstream[i].ok /\ http.upstream[i].status \in 500..599

\* The upstream answers k < max_attempts 5xx responses and then a response
\* with another status.
ServerErrorsThenOther(k) ==
    /\ k < http.max_attempts
    /\ ServerErrorsFirst(k)
    /\ http.upstream[k + 1].ok
    /\ http.upstream[k + 1].status \notin 500..599

\* C13: when the upstream answers k < max_attempts 5xx responses and then a
\* non-5xx response (a 200, a 4xx, ...), http_get_with_retries returns that
\* response as Ok after exactly k + 1 requests: never more than k + 1
\* requests are made, and a non-5xx status is never retried.
C13_ReturnsFirstNonServerError ==
    \A k \in 0..(MaxAttemptsBound - 1) :
        ServerErrorsThenOther(k) =>
            /\ http.requests <= k + 1
            /\ http.pc = "done" =>
                  /\ http.result.tag = "Ok"
                  /\ http.result.status = http.upstream[k + 1].status
                  /\ http.requests = k + 1
                  /\ Len(http.sleeps) = k

\* C13 witness: two 5xx responses, then a 200, max_attempts = 3: the 200 is
\* returned after three requests.
C13_Witness ==
    /\ http.max_attempts = 3 /\ ServerErrorsThenOther(2)
    /\ http.upstream[3].status = 200
    /\ http.pc = "done" /\ http.result.tag = "Ok" /\ http.result.status = 200
    /\ http.requests = 3

\* C14: when each of the max_attempts attempts gets a 5xx response, exactly
\* max_attempts requests are made and the last 5xx response is returned as
\* Ok, not as an error.
C14_ExhaustedServerErrorsReturnLast ==
    (http.max_attempts >= 1 /\ ServerErrorsFirst(http.max_attempts)) =>
        /\ http.requests <= http.max_attempts
        /\ http.pc = "done" =>
              /\ http.result.tag = "Ok"
              /\ http.result.status = http.upstream[http.max_attempts].status
              /\ http.requests = http.max_attempts

\* C14 witness: 500, 500, 503 with max_attempts = 3: Ok with the 503.
C14_Witness ==
    /\ http.max_attempts = 3 /\ ServerErrorsFirst(3)
    /\ http.upstream[2].status = 500 /\ http.upstream[3].status = 503
    /\ http.pc = "done" /\ http.result.tag = "Ok" /\ http.result.status = 503
    /\ http.requests = 3

\* Attempt number max_attempts is made (every earlier attempt was a
\* transport failure or a 5xx response) and ends in a transport failure.
FinalAttemptTransportFailure ==
    /\ http.max_attempts >= 1
    /\ \A i \in 1..(http.max_attempts - 1) :
          ~http.upstream[i].ok \/ http.upstream[i].status \in 500..599
    /\ ~http.upstream[http.max_attempts].ok

\* C15: when attempt number max_attempts ends in a transport failure, the
\* call returns an error that reports max_attempts attempts and the last
\* transport error, whatever transport failures and 5xx responses came before.
C15_FinalTransportFailureIsError ==
    (FinalAttemptTransportFailure /\ http.pc = "done") =>
        /\ http.result.tag = "Err"
        /\ http.result.attempts = http.max_attempts
        /\ http.result.error = http.upstream[http.max_attempts].error
        /\ http.requests = http.max_attempts

\* C15 witness: a timeout, a 503, then a refused connection, max_attempts = 3.
C15_Witness ==
    /\ FinalAttemptTransportFailure /\ http.pc = "done"
    /\ http.max_attempts = 3
    /\ http.upstream[1] = TransportError("timeout")
    /\ http.upstream[2] = Response(503)
    /\ http.upstream[3] = TransportError("refused")
    /\ http.result = HttpResult("Err", 0, 3, "refused")

(***************************************************************************)
(* should_job_have_run (main.rs) on its own.                               *)
(***************************************************************************)
CronClockInit ==
    /\ clock = StartInstant
    /\ CronInit
    /\ InitHttpIdle
    /\ InitTextIdle
    /\ InitMainIdle
    /\ InitMonitorIdle

CronClockNext == ShouldJobHaveRun

CronClockSpec == CronClockInit /\ [][CronClockNext]_vars

(***************************************************************************)
(* The text functions of main.rs on their own.                             *)
(***************************************************************************)
TextSpecInit ==
    /\ clock = StartInstant
    /\ TextInit
    /\ InitHttpIdle
    /\ InitCronIdle
    /\ InitMainIdle
    /\ InitMonitorIdle

TextNext ==
    \/ BuildJobApiUrl
    \/ BuildApiUrlFromLastBuild
    \/ NormalizeCronSpec

TextSpec == TextSpecInit /\ [][TextNext]_vars

\* The firings of the call's schedule in [lo, hi].
FiringsIn(lo, hi) == {t \in lo..hi : Fires(cron.schedule, t)}

Latest(F) == CHOOSE t \in F : \A u \in F : u <= t

\* The lookback window of the evaluator, 2 x threshold, in seconds.
Lookback == 2 * 60 * cron.threshold_minutes

\* C17: whenever the window [now - lookback, now] holds at least one firing,
\* should_job_have_run returns the latest firing of the window, however many
\* firings it holds, a firing exactly at now - lookback or at now included.
C17_LatestFiringInWindow ==
    (cron.returned /\ FiringsIn(cron.now - Lookback, cron.now) # {}) =>
        cron.result = Some(Latest(FiringsIn(cron.now - Lookback, cron.now)))

\* C17 for the windows the code serves: at most 100 firings after
\* now - lookback, that instant itself excluded.
C17_LatestFiringInOpenWindowUpTo100 ==
    (cron.returned /\ FiringsIn(cron.now - Lookback + 1, cron.now) # {}
     /\ Cardinality(FiringsIn(cron.now - Lookback + 1, cron.now)) <= 100) =>
        cron.result = Some(Latest(FiringsIn(cron.now - Lookback + 1, cron.now)))

\* The largest gap between two consecutive firings of a schedule, seconds.
Gap(s) ==
    LET n == Len(s.offsets)
        gaps == {s.offsets[i + 1] - s.offsets[i] : i \in 1..(n - 1)}
                  \cup {s.period - s.offsets[n] + s.offsets[1]}
    IN  CHOOSE g \in gaps : \A h \in gaps : h <= g

\* C18: with the lookback of 2 x alert_threshold, should_job_have_run finds
\* a firing, at every now, for every schedule whose consecutive firings are
\* no further apart than alert_threshold.
C18_FiringFoundWhenGapWithinThreshold ==
    (cron.returned /\ Gap(cron.schedule) <= 60 * cron.threshold_minutes) =>
        IsSome(cron.result)

\* C18 witness: an hourly schedule with a threshold of exactly one hour, one
\* second before the next firing; the firing of the hour before is found.
C18_Witness ==
    /\ cron.returned
    /\ cron.schedule = Hourly /\ cron.threshold_minutes = 60
    /\ cron.now = StartInstant + 3599
    /\ cron.result = Some(StartInstant)

(***************************************************************************)
(* Properties of check_job (main.rs), stated on `checked`, the record of   *)
(* the last iteration of monitor_jobs.                                     *)
(***************************************************************************)

\* A difference of seconds in whole minutes, truncated toward zero.
WholeMinutes(seconds) ==
    IF seconds >= 0 THEN seconds \div 60 ELSE 0 - ((0 - seconds) \div 60)

\* The last iteration called check_job and both requests gave a build.
GotBuild == checked.phase = "checked" /\ checked.details.tag = "ok"

BuildSeconds == checked.details.timestamp \div 1000

NotFailedResult == checked.details.result \in {None, Some("SUCCESS")}

\* C1: for a job whose latest build is not failed and for which a most recent
\* scheduled firing `expected` is found, check_job returns Ok(false) (Overdue)
\* iff age_of_build > age_of_schedule + alert_threshold_minutes, and Ok(true)
\* (Healthy) otherwise, both ages being the seconds differences from now in
\* whole minutes, truncated toward zero.
C1_OverdueIffOlderThanScheduledPlusThreshold ==
    (GotBuild /\ NotFailedResult /\ IsSome(checked.verdict.expected)) =>
        LET age_of_build == WholeMinutes(checked.now - BuildSeconds)
            age_of_schedule ==
                WholeMinutes(checked.now - Unwrap(checked.verdict.expected))
        IN  /\ checked.verdict.tag = "Ok"
            /\ checked.verdict.minutes_since_build = age_of_build
            /\ checked.verdict.minutes_since_scheduled = age_of_schedule
            /\ (~checked.verdict.healthy) <=>
                   (age_of_build > age_of_schedule + checked.threshold)

\* C1 witness: a non-failed build exactly one minute past the allowance, so
\* reported Overdue.
C1_Witness ==
    /\ GotBuild /\ NotFailedResult /\ IsSome(checked.verdict.expected)
    /\ WholeMinutes(checked.now - BuildSeconds)
         = WholeMinutes(checked.now - Unwrap(checked.verdict.expected))
           + checked.threshold + 1
    /\ checked.verdict.tag = "Ok" /\ ~checked.verdict.healthy

NoFiringInLookback ==
    /\ IsSome(checked.schedule)
    /\ \A t \in (checked.now - 2 * 60 * checked.threshold + 1)..checked.now :
          ~Fires(Unwrap(checked.schedule), t)

C4_FailedIffPresentAndNotSuccess ==
    GotBuild =>
        /\ (checked.verdict.path = "failed_build") <=>
               (IsSome(checked.details.result)
                /\ Unwrap(checked.details.result) # "SUCCESS")
        /\ (checked.details.result = None \/ checked.details.result = Some("SUCCESS"))
               => checked.verdict.path = "schedule"

\* C4 witness: a running build (no result) old enough to be Overdue by the
\* schedule check.
C4_Witness ==
    /\ GotBuild /\ checked.details.result = None
    /\ checked.verdict.path = "schedule"
    /\ checked.verdict.tag = "Ok" /\ ~checked.verdict.healthy

\* The case of the worked examples: schedule `0 0 0 * * *`, threshold 90.
WorkedExample(now, build_ms) ==
    /\ GotBuild
    /\ checked.schedule = ParseSchedule(<<"0", "0", "0", "*", "*", "*">>)
    /\ checked.threshold = 90
    /\ checked.now = now
    /\ checked.details.timestamp = build_ms
    /\ checked.details.result = Some("SUCCESS")

\* C5: worked example 1. now = 2025-12-07T01:28:05Z (T0 + 91685 s), last
\* successful build at 2025-12-07T00:00:00Z (T0 + 86400 s): the firing found
\* is 2025-12-07T00:00:00Z, age_of_build = 88, age_of_schedule = 88, Healthy.
C5_WorkedExampleHealthy ==
    WorkedExample(91685, 86400000) =>
        /\ checked.verdict.expected = Some(86400)
        /\ checked.verdict.minutes_since_build = 88
        /\ checked.verdict.minutes_since_scheduled = 88
        /\ checked.verdict.tag = "Ok" /\ checked.verdict.healthy

C5_Witness == WorkedExample(91685, 86400000)

\* C6: worked example 2. now = 2025-12-07T02:00:00Z (T0 + 93600 s), last
\* successful build at 2025-12-06T00:00:00Z (T0): the firing found is
\* 2025-12-07T00:00:00Z, age_of_build = 1560, age_of_schedule = 120, Overdue.
C6_WorkedExampleOverdue ==
    WorkedExample(93600, 0) =>
        /\ checked.verdict.expected = Some(86400)
        /\ checked.verdict.minutes_since_build = 1560
        /\ checked.verdict.minutes_since_scheduled = 120
        /\ checked.verdict.tag = "Ok" /\ ~checked.verdict.healthy

C6_Witness == WorkedExample(93600, 0)

\* C8: no alert for a job is emitted at a time t when an earlier alert for
\* the same job was emitted at s with t - s <= 1 hour. Stated of main.rs:
\* emails[j] holds the instants of the two most recent alerts for j.
C8_NoTwoAlertsWithinCooldown ==
    \A j \in DOMAIN emails :
        Len(emails[j]) = 2 => emails[j][2] - emails[j][1] > 3600

(***************************************************************************)
(* Properties of Monitor::check_job (monitor.rs), stated on mon_checked,   *)
(* the record of the last call, and mon_alerts, the runs of consecutive    *)
(* Overdue ticks.                                                          *)
(***************************************************************************)

Evaluated == mon_checked.phase = "evaluated"

\* C3: for a job with no build history the verdict is Overdue, for every
\* now, schedule and threshold, without consulting the schedule. Stated of
\* Monitor::check_job, whose should_alert is the verdict.
C3_NoBuildHistoryIsOverdue ==
    (Evaluated /\ mon_checked.current_build = None) => mon_checked.should_alert

\* C3 as main.rs check_job has it: no lastBuild gives Ok(false) and no
\* schedule is consulted.
C3_MainNeverBuiltIsOverdue ==
    (checked.phase = "checked" /\ checked.summary.tag = "ok"
     /\ ~checked.summary.has_last_build) =>
        /\ checked.verdict.tag = "Ok" /\ ~checked.verdict.healthy
        /\ checked.verdict.path = "never_built"

\* A job's run of consecutive Overdue ticks that began with no alert sent
\* before and has stayed within one cooldown window of its first tick.
RunInOneWindow(j) ==
    /\ mon_alerts[j].active /\ mon_alerts[j].fresh
    /\ mon_alerts[j].last - mon_alerts[j].start <= 3600

C9_FiresIffCooldownElapsed ==
    (Evaluated /\ mon_checked.should_alert) =>
        (mon_checked.fired <=>
            (mon_checked.prior_alert = None
             \/ mon_checked.now - Unwrap(mon_checked.prior_alert) > 3600))

\* C9 witness: Overdue exactly one hour after the last alert, suppressed.
C9_Witness ==
    /\ Evaluated /\ mon_checked.should_alert
    /\ mon_checked.prior_alert = Some(mon_checked.now - 3600)
    /\ ~mon_checked.fired

C16_NonSuccessStatusIsError ==
    checked.phase = "checked" =>
        /\ (checked.summary.tag # "transport"
            /\ checked.summary.status \notin 200..299) =>
              /\ checked.verdict.tag = "Err"
              /\ checked.verdict.err = "status"
              /\ checked.verdict.path = "summary"
        /\ (checked.details.tag \notin {"unused", "transport"}
            /\ checked.details.status \notin 200..299) =>
              /\ checked.verdict.tag = "Err"
              /\ checked.verdict.err = "status"
              /\ checked.verdict.path = "details"

\* C16 witness: the build request ends, after three 5xx responses, in a 503
\* returned as Ok by the retry layer, and check_job returns Err.
C16_Witness ==
    /\ checked.phase = "checked"
    /\ checked.summary.tag = "ok" /\ checked.summary.status = 200
    /\ checked.details.tag = "status" /\ checked.details.status = 503
    /\ checked.verdict.tag = "Err" /\ checked.verdict.path = "details"

\* C19: when should_job_have_run finds no firing in the lookback window for
\* a job, the iteration of monitor_jobs produces no verdict for the job and
\* sends no alert of any kind for it.
C19_LookbackErrorSendsNoAlert ==
    (checked.phase = "checked" /\ checked.verdict.err = "lookback") =>
        /\ checked.verdict.tag = "Err"
        /\ checked.alert = "none"

\* The firing of the job's schedule that precedes the firing `expected`.
PrecedingFiring ==
    FiringAt(Unwrap(checked.schedule),
             FiringsUpTo(Unwrap(checked.schedule), Unwrap(checked.verdict.expected) - 1))

\* C20: a job whose latest build is not failed and ran at or after the
\* firing preceding `expected` is Healthy at every now with
\* now - expected <= alert_threshold.
C20_HealthyWithinThresholdOfExpected ==
    (GotBuild /\ NotFailedResult /\ IsSome(checked.verdict.expected)
     /\ checked.details.timestamp >= PrecedingFiring * 1000
     /\ checked.now - Unwrap(checked.verdict.expected) <= 60 * checked.threshold) =>
        (checked.verdict.tag = "Ok" /\ checked.verdict.healthy)

\* C21: a failure while handling one job (retrieval error, invalid
\* schedule, evaluation error, alert delivery failure) never aborts the run
\* of monitor_jobs: the jobs gone through are at every moment the first
\* cursor - 1 configured jobs, each once and in configuration order, and
\* all of them when the run has ended.
C21_EveryJobHandledOnceInOrder ==
    /\ Len(handled) = (IF cursor = 1 /\ cycle > 0 THEN Len(app_conf.job) ELSE cursor - 1)
    /\ \A i \in 1..Len(handled) : handled[i].job = app_conf.job[i].name

\* C21 witness: the retrieval for the first job failed and the second job
\* was evaluated in the same run.
C21_Witness ==
    /\ Len(handled) = 2
    /\ handled[1].outcome = "retrieval_error"
    /\ handled[2].outcome = "evaluated"

\* C21 as Monitor::check_all_jobs has it: every step of a tick handles the
\* job at mon_cursor and moves to the next, and the next tick starts only
\* after the last job.
C21_MonitorHandlesJobsInOrder ==
    [][mon_pc = "running" =>
          /\ mon_cursor' \in {mon_cursor + 1, 1}
          /\ mon_cursor' = mon_cursor + 1 =>
                (mon_cursor <= Len(mon_conf)
                 /\ mon_checked'.job = mon_conf[mon_cursor].name)
          /\ mon_cursor' # mon_cursor + 1 => mon_cursor = Len(mon_conf) + 1]_vars

\* C22: a job whose cron expression fails to parse is skipped entirely on
\* the tick: no retrieval request is made for it, no verdict is produced
\* and no alert is sent. Stated of Monitor::check_job.
C22_InvalidScheduleSkippedEntirely ==
    mon_checked.phase = "invalid_schedule" =>
        /\ ~mon_checked.requested
        /\ ~mon_checked.should_alert /\ ~mon_checked.fired

\* C22 as main.rs monitor_jobs has it: check_job is not called, so neither
\* the job request nor the build request is made, there is no verdict and
\* no alert.
C22_MainInvalidScheduleSkipped ==
    checked.phase = "invalid_schedule" =>
        /\ checked.summary = NoSummary /\ checked.details = NoDetails
        /\ checked.verdict = NoVerdict /\ checked.alert = "none"

\* The configuration of the job of the last iteration.
CheckedJobConf ==
    app_conf.job[CHOOSE i \in 1..Len(app_conf.job) : app_conf.job[i].name = checked.job]

\* C23: when check_job returns an error for a job, the error alert is sent
\* iff the job's alert_on_error is true, or is unset while the global
\* alert_on_check_error is true; nothing else is consulted.
C23_ErrorAlertIffPolicy ==
    (checked.phase = "checked" /\ checked.verdict.tag = "Err") =>
        ((checked.alert = "error") <=>
            (CheckedJobConf.alert_on_error = Some(TRUE)
             \/ (CheckedJobConf.alert_on_error = None
                 /\ app_conf.alert_on_check_error)))
        /\ checked.alert # "overdue"

\* C23 witness: the override is true while the global default is false,
\* and the error alert is sent although another alert for the job went out
\* less than an hour before.
C23_Witness ==
    /\ checked.phase = "checked" /\ checked.verdict.tag = "Err"
    /\ CheckedJobConf.alert_on_error = Some(TRUE)
    /\ ~app_conf.alert_on_check_error
    /\ checked.alert = "error"
    /\ Len(emails[checked.job]) = 2
    /\ emails[checked.job][2] = checked.now
    /\ emails[checked.job][2] - emails[checked.job][1] < 3600

\* The last tick time of the model.
LastMonInstant == CHOOSE t \in MonInstants : \A u \in MonInstants : u <= t

\* C24: a failure of send_alert is logged by check_all_jobs and does not
\* abort the tick: from a check_job whose alert was not delivered, the tick
\* goes on up to the last configured job, and the next tick comes.
C24_DeliveryFailureDoesNotAbort ==
    \A t \in MonInstants \ {LastMonInstant} :
        LET failed == /\ clock = t /\ mon_checked.phase = "evaluated"
                      /\ mon_checked.now = t
                      /\ mon_checked.fired /\ ~mon_checked.delivered
        IN  /\ failed ~> (/\ clock = t /\ mon_cursor = Len(mon_conf) + 1
                          /\ mon_checked.job = mon_conf[Len(mon_conf)].name)
            /\ failed ~> (clock > t /\ mon_cursor = 1)

\* C24 witness: an alert of a job was not delivered on a tick, and a later
\* tick has started.
C24_Witness ==
    /\ mon_cursor = 1
    /\ \E j \in DOMAIN mon_alerts :
          /\ mon_alerts[j].active
          /\ mon_alerts[j].fired > mon_alerts[j].delivered
          /\ clock > mon_alerts[j].last

\* C24 as main.rs monitor_jobs has it: after a send_email_alert that
\* failed the loop is at the next job, and some step of the loop (the next
\* iteration, or the sleep after the last one) can be taken.
C24_MainDeliveryFailureGoesOn ==
    (cycle < MaxCycles /\ cursor > 1 /\ Outcome(checked) = "delivery_failed") =>
        /\ Len(handled) = cursor - 1
        /\ handled[cursor - 1].job = checked.job
        /\ ENABLED Next

\* C25: no upstream or sink error ends the process; from the start, before
\* the first tick, a tick eventually runs. Stated of Monitor::run.
C25_MonitorFirstTickRuns == <>(mon_pc = "running")

\* C25 as main.rs main has it: whatever errors the jobs met, a step of the
\* loop can always be taken.
C25_MainLoopNeverStuck == cycle < MaxCycles => ENABLED Next

\* The last_alert_sent and last_check of a job's entry of job_states (None
\* while the job has no entry).
LastAlertSentOf(entry) == IF IsSome(entry) THEN Unwrap(entry).last_alert_sent ELSE None

LastCheckOf(entry) == IF IsSome(entry) THEN Some(Unwrap(entry).last_check) ELSE None

\* A step that is one Monitor::check_job call reaching the overdue decision.
EvaluateStep == mon_cursor' = mon_cursor + 1 /\ mon_checked'.phase = "evaluated"

\* C11: a tick whose verdict for a job is Healthy sends no alert for the job
\* and leaves its last_alert_sent as it was (not reset to None); so a tick
\* on which the job is Overdue again within one hour of its last delivered
\* alert sends nothing, Healthy ticks in between or not.
C11_HealthyTickKeepsCooldownMemory ==
    [][EvaluateStep =>
          LET j == mon_checked'.job
          IN  /\ ~mon_checked'.should_alert =>
                    /\ ~mon_checked'.fired
                    /\ LastAlertSentOf(job_states'[j]) = LastAlertSentOf(job_states[j])
                    /\ LastAlertSentOf(job_states'[j]) = mon_sent[j].at
              /\ (mon_checked'.should_alert /\ IsSome(mon_sent[j].at)
                  /\ clock' - Unwrap(mon_sent[j].at) <= 3600) =>
                    ~mon_checked'.fired]_vars

\* C11 witness: a job alerted, then Healthy on a later tick, then Overdue
\* again exactly one hour after the alert, and nothing is sent.
C11_Witness ==
    /\ Evaluated /\ mon_checked.should_alert /\ ~mon_checked.fired
    /\ mon_sent[mon_checked.job].healthy_since
    /\ mon_sent[mon_checked.job].at = Some(mon_checked.now - 3600)
    /\ LastAlertSentOf(job_states[mon_checked.job]) = Some(mon_checked.now - 3600)

\* C12: for every job, last_check never decreases from one step to the
\* next and an entry of job_states is never removed; a tick on which
\* retrieval or schedule parsing fails leaves last_check as it was.
C12_LastCheckNonDecreasing ==
    [][\A j \in DOMAIN job_states :
          /\ IsSome(job_states[j]) =>
                /\ IsSome(job_states'[j])
                /\ Unwrap(job_states'[j]).last_check >= Unwrap(job_states[j]).last_check
          /\ (mon_checked'.job = j /\ mon_cursor' = mon_cursor + 1
              /\ mon_checked'.phase \in {"retrieval_error", "invalid_schedule"}) =>
                LastCheckOf(job_states'[j]) = LastCheckOf(job_states[j])]_vars

\* C12 witness: a job checked on an earlier tick whose retrieval fails on
\* the current tick, last_check still being the earlier tick's time.
C12_Witness ==
    /\ mon_checked.phase = "retrieval_error"
    /\ IsSome(job_states[mon_checked.job])
    /\ Unwrap(job_states[mon_checked.job]).last_check < mon_checked.now

(***************************************************************************)
(* C26, C27: build_api_url_from_last_build.                                *)
(***************************************************************************)
ReconcileCall ==
    /\ text.fn = "build_api_url_from_last_build"
    /\ text.returned
    /\ text.args.raw.scheme # ""
    /\ text.args.configured_base.scheme # ""

\* The scheme and host of the returned URL are those of the configured base
\* (hosts compare without regard to case).
ReturnedOnConfiguredHost ==
    /\ text.args.raw.scheme = text.args.configured_base.scheme
    /\ AsciiLower(text.args.raw.host) = AsciiLower(text.args.configured_base.host)

\* ":port" of a URL text, nothing for no port or the default one.
PortSuffix(t) ==
    IF t.port \in {"", DefaultPort(t.scheme)} THEN <<>> ELSE <<":", t.port>>

\* The path of the returned URL, spaces escaped, then /api/json.
ReturnedPathApiJson ==
    PathToString(ReplaceSpaces(text.args.raw).path) \o <<"/", "api", "/", "json">>

\* C26: when the returned lastBuild URL has a scheme or a host other than
\* the configured base's, the result is the configured base's scheme, host
\* and port, followed by the path of the returned URL, followed by api/json:
\* the returned scheme, host and port are dropped.
C26_HostMismatchUsesConfiguredHost ==
    (ReconcileCall /\ ~ReturnedOnConfiguredHost)
        => text.result =
             TextOk(<<text.args.configured_base.scheme, "://",
                      text.args.configured_base.host>>
                    \o PortSuffix(text.args.configured_base)
                    \o ReturnedPathApiJson)

\* http://10.0.0.5:8080/job/x/15/ with base https://ci.example.com/ gave
\* https://ci.example.com/job/x/15/api/json.
C26_Witness ==
    /\ ReconcileCall
    /\ text.args.raw = UrlText("http", "10.0.0.5", "8080",
                               << <<"job">>, <<"x">>, <<"15">> >>, TRUE)
    /\ text.args.configured_base = UrlText("https", "ci.example.com", "", <<>>, TRUE)
    /\ text.result = TextOk(<<"https", "://", "ci.example.com", "/", "job", "/", "x",
                              "/", "15", "/", "api", "/", "json">>)

\* C27: when the returned lastBuild URL has the scheme and the host of the
\* configured base, the result is the returned URL itself (its scheme, host,
\* port and path) followed by /api/json, and it is the result the function
\* gives for the same URL with the trailing slash added or removed.
C27_HostMatchKeepsReturnedUrl ==
    (ReconcileCall /\ ReturnedOnConfiguredHost)
        => /\ text.result =
                TextOk(<<text.args.raw.scheme, "://", AsciiLower(text.args.raw.host)>>
                       \o PortSuffix(text.args.raw)
                       \o ReturnedPathApiJson)
           /\ text.result =
                build_api_url_from_last_build(
                    [text.args.raw EXCEPT !.slash = ~text.args.raw.slash],
                    text.args.configured_base)

\* https://ci.example.com:8080/job/x/15 (no trailing slash) with base
\* https://ci.example.com/ gave https://ci.example.com:8080/job/x/15/api/json.
C27_Witness ==
    /\ ReconcileCall
    /\ text.args.raw = UrlText("https", "ci.example.com", "8080",
                               << <<"job">>, <<"x">>, <<"15">> >>, FALSE)
    /\ text.args.configured_base = UrlText("https", "ci.example.com", "", <<>>, TRUE)
    /\ text.result = TextOk(<<"https", "://", "ci.example.com", ":", "8080", "/", "job",
                              "/", "x", "/", "15", "/", "api", "/", "json">>)

(***************************************************************************)
(* C28: build_job_api_url.                                                 *)
(***************************************************************************)
JobUrlCall == text.fn = "build_job_api_url" /\ text.returned

\* The length of the base once its trailing slashes are removed.
TrimmedBaseLen(base_url) ==
    CHOOSE k \in 0..Len(base_url) :
        /\ k = 0 \/ base_url[k] # "/"
        /\ \A j \in (k + 1)..Len(base_url) : base_url[j] = "/"

\* A piece of the request path read back: "/job/" is the separator of two
\* segments, %XX is the character it encodes.
PathPieceDecoded(piece) ==
    IF piece = "/job/" THEN "/"
    ELSE IF piece = "%20" THEN " "
    ELSE IF piece = "%25" THEN "%"
    ELSE piece

\* C28: the request URL is the base without its trailing slashes, then
\* "/job/<encoded segment>" for each segment of the job name in order, then
\* "/api/json"; no separator of the job name is percent-encoded and every
\* other character that needs it is.
C28_JobUrlEncodesEachSegment ==
    JobUrlCall =>
        LET base_url == text.args.base_url
            job_name == text.args.job_name
            url == text.result.value
            n == TrimmedBaseLen(base_url)
            middle == SubSeq(url, n + 1, Len(url) - 1)
        IN  /\ text.result.tag = "Ok"
            /\ Len(url) = n + 1 + Len(job_name) + 1
            /\ SubSeq(url, 1, n) = SubSeq(base_url, 1, n)
            /\ Last(url) = "/api/json"
            /\ [i \in 1..Len(middle) |-> PathPieceDecoded(middle[i])]
                 = <<"/">> \o job_name
            /\ \A i \in 1..Len(middle) : middle[i] \notin {"%2F", " ", "%", "/"}

\* base "https://ci.example.com//" and job "a/ %" gave
\* https://ci.example.com/job/a/job/%20%25/api/json.
C28_Witness ==
    /\ JobUrlCall
    /\ text.args.base_url = <<"https://ci.example.com", "/", "/">>
    /\ text.args.job_name = <<"a", "/", " ", "%">>
    /\ text.result = TextOk(<<"https://ci.example.com", "/job/", "a", "/job/",
                              "%20", "%25", "/api/json">>)

(***************************************************************************)
(* C29: normalize_cron_spec.                                               *)
(***************************************************************************)
NormalizeCall == text.fn = "normalize_cron_spec" /\ text.returned

\* C29: an expression of exactly five whitespace-separated fields comes back
\* as "0 " followed by the trimmed expression, any other expression comes
\* back trimmed and otherwise unchanged, and normalizing the result again
\* gives the result.
C29_NormalizePrependsSecondsOnce ==
    NormalizeCall =>
        LET spec == text.args.spec
            out == text.result.value
        IN  /\ Len(split_whitespace(spec)) = 5
                 => /\ out = <<"0", " ">> \o trim(spec)
                    /\ split_whitespace(out) = <<"0">> \o split_whitespace(spec)
            /\ Len(split_whitespace(spec)) # 5 => out = trim(spec)
            /\ normalize_cron_text(out) = out
            /\ split_whitespace(out) = normalize_cron_spec(split_whitespace(spec))

\* " 0 2 * * * " came back as "0 0 2 * * *".
C29_Witness ==
    /\ NormalizeCall
    /\ text.args.spec = <<" ", "0", " ", "2", " ", "*", " ", "*", " ", "*", " ">>
    /\ text.result = TextOk(<<"0", " ", "0", " ", "2", " ", "*", " ", "*", " ", "*">>)

\* A six-field expression came back trimmed.
C29_WitnessSixFields ==
    /\ NormalizeCall
    /\ text.args.spec = <<" ", "0", "\t", "2", "\t", "*", "\t", "*", "\t", "*", "\t", "*">>
    /\ text.result = TextOk(<<"0", "\t", "2", "\t", "*", "\t", "*", "\t", "*", "\t", "*">>)

(***************************************************************************)
(* C30: the verdict of check_job is a function of its inputs.              *)
(***************************************************************************)
\* Evaluating again, in the state the loop has reached since, the inputs of
\* the last check_job call: the verdict is the one the call returned.
C30_ReevaluationGivesSameVerdict ==
    checked.phase = "checked"
        => checked.verdict = check_job(checked.now, Unwrap(checked.schedule),
                                       checked.threshold, checked.summary,
                                       checked.details)

\* Two check_job calls in a row with the same schedule, threshold, now and
\* fetched build return the same verdict.
C30_ConsecutiveEvaluationsAgree ==
    [][(/\ checked.phase = "checked"
        /\ checked'.phase = "checked"
        /\ checked'.job # checked.job
        /\ checked'.now = checked.now
        /\ checked'.schedule = checked.schedule
        /\ checked'.threshold = checked.threshold
        /\ checked'.summary = checked.summary
        /\ checked'.details = checked.details)
          => checked'.verdict = checked.verdict]_vars

C30_MonitorVerdictIgnoresJobState ==
    mon_checked.phase = "evaluated"
        => \E i \in 1..Len(mon_conf) :
              /\ mon_conf[i].name = mon_checked.job
              /\ mon_checked.should_alert =
                    ShouldAlert(mon_checked.current_build, mon_checked.now,
                                Unwrap(mon_checked.expected),
                                mon_conf[i].alert_threshold_mins)

(***************************************************************************)
(* C31: job_states[J] is written by check_job(J) only.                     *)
(***************************************************************************)
\* C31: a step changes the job_states entry of a job only when it is
\* Monitor::check_job for that job getting past both `?` (the entry then
\* exists); the entries of all other jobs, and every entry on the error
\* paths, on a skip and between ticks, stay as they are.
C31_OnlyEvaluatedJobStateChanges ==
    [][/\ \A j \in DOMAIN job_states :
            job_states'[j] # job_states[j]
              => /\ mon_checked'.phase = "evaluated"
                 /\ mon_checked'.job = j
                 /\ IsSome(job_states'[j])
       /\ (mon_cursor' = mon_cursor + 1 /\ mon_checked'.phase = "evaluated")
            => IsSome(job_states'[mon_checked'.job])]_vars

\* check_job for "nightly" ran after "hourly" had an entry: the entry of
\* "hourly" still holds what its own evaluation wrote.
C31_Witness ==
    /\ mon_checked.phase = "evaluated"
    /\ mon_checked.job = "nightly"
    /\ "hourly" \in DOMAIN job_states
    /\ IsSome(job_states["hourly"])
    /\ IsSome(job_states["nightly"])
    /\ Unwrap(job_states["hourly"]).last_check < clock
    /\ Unwrap(job_states["nightly"]).last_check = clock
    /\ Unwrap(job_states["hourly"]).last_build_info
         # Unwrap(job_states["nightly"]).last_build_info

(***************************************************************************)
(* C32: should_alert of Monitor::check_job against the section 4.4 rule.   *)
(***************************************************************************)
\* The threshold of the job of the last Monitor::check_job call.
MonCheckedThreshold ==
    mon_conf[CHOOSE i \in 1..Len(mon_conf) :
                 mon_conf[i].name = mon_checked.job].alert_threshold_mins

\* The section 4.4 verdict for the last Monitor::check_job call, the expected
\* firing being the one the call computed: Overdue iff there is no build, or
\* the build failed, or age_of_build > age_of_schedule + threshold, ages in
\* whole minutes.
Section44Overdue ==
    LET now == mon_checked.now
        expected == Unwrap(mon_checked.expected)
        build == mon_checked.current_build
    IN  IF ~IsSome(build) THEN TRUE
        ELSE IF is_build_failed(Unwrap(build).result) THEN TRUE
        ELSE LET age_of_build ==
                     TruncDiv(now - TimestampOfMillis(Unwrap(build).timestamp), 60)
                 age_of_schedule == TruncDiv(now - expected, 60)
             IN  age_of_build > age_of_schedule + MonCheckedThreshold

\* C32: should_alert of Monitor::check_job is the section 4.4 verdict, for
\* every now, schedule, threshold and latest build.
C32_MonitorAgreesWithSection44 ==
    mon_checked.phase = "evaluated"
        => (mon_checked.should_alert <=> Section44Overdue)

\* The same for the calls whose latest build succeeded, where only the
\* comparison itself is at stake.
C32_MonitorAgreesOnSuccessfulBuilds ==
    (/\ mon_checked.phase = "evaluated"
     /\ IsSome(mon_checked.current_build)
     /\ ~is_build_failed(Unwrap(mon_checked.current_build).result))
        => (mon_checked.should_alert <=> Section44Overdue)

(***************************************************************************)
(* C33, C34: attempts and backoff of http_get_with_retries.                *)
(***************************************************************************)
\* C33: every call returns; the requests are numbered from 1, one per
\* attempt; when the call has returned, it made no request for
\* max_attempts = 0 (and returned an error), and between 1 and max_attempts
\* requests otherwise; nothing is requested after the return.
C33_RetriesTerminateWithinMaxAttempts ==
    /\ <>(http.pc = "done")
    /\ [](/\ http.requests = http.attempt
          /\ http.attempt <= http.max_attempts
          /\ http.pc = "done"
               => /\ http.max_attempts = 0
                       => http.requests = 0 /\ http.result.tag = "Err"
                  /\ http.max_attempts >= 1 => http.requests >= 1)
    /\ [][/\ http.pc = "running"
          /\ http.max_attempts >= 1 => http'.attempt = http.attempt + 1
          /\ http'.attempt = 1 => http.attempt = 0]_vars

\* A call with max_attempts = 3 returned after its third request, the
\* first two answered by a transport failure and a 503.
C33_Witness ==
    /\ http.pc = "done"
    /\ http.max_attempts = 3
    /\ http.requests = 3
    /\ ~http.upstream[1].ok
    /\ http.upstream[2] = Response(503)

\* A call with max_attempts = 0 returned an error without a request.
C33_WitnessZeroAttempts ==
    /\ http.pc = "done"
    /\ http.max_attempts = 0
    /\ http.requests = 0
    /\ http.result.tag = "Err"

\* The delay of the k-th sleep: base_delay, doubled after each retried
\* attempt unless the doubling overflows.
RECURSIVE BackoffDelay(_, _)
BackoffDelay(base_delay_ms, k) ==
    IF k = 1 THEN base_delay_ms
    ELSE LET previous == BackoffDelay(base_delay_ms, k - 1)
         IN  IF previous * 2 > MaxDurationMs THEN previous ELSE previous * 2

RECURSIVE Pow2(_)
Pow2(n) == IF n = 0 THEN 1 ELSE 2 * Pow2(n - 1)

\* C34: there is one sleep after each attempt but the final one; the sleep
\* after attempt k lasts base_delay * 2^(k-1), or the previous delay again
\* once doubling would overflow, whatever made the attempt a retried one;
\* the delays never decrease.
C34_BackoffDoublesBetweenAttempts ==
    /\ Len(http.sleeps) =
          (IF http.pc = "done" /\ http.requests > 0
           THEN http.requests - 1 ELSE http.requests)
    /\ \A k \in 1..Len(http.sleeps) :
          /\ http.sleeps[k] = BackoffDelay(http.base_delay_ms, k)
          /\ http.base_delay_ms * Pow2(k - 1) <= MaxDurationMs
               => http.sleeps[k] = http.base_delay_ms * Pow2(k - 1)
          /\ k > 1 => http.sleeps[k] >= http.sleeps[k - 1]
          /\ (k > 1 /\ http.sleeps[k - 1] * 2 > MaxDurationMs)
               => http.sleeps[k] = http.sleeps[k - 1]

\* Three attempts, the first failing in transport and the second with a
\* 500: sleeps of 500 ms and 1000 ms, none after the third.
C34_Witness ==
    /\ http.pc = "done"
    /\ http.requests = 3
    /\ http.base_delay_ms = 500
    /\ ~http.upstream[1].ok
    /\ http.upstream[2] = Response(500)
    /\ http.sleeps = <<500, 1000>>

\* Doubling 800 ms would overflow: the second sleep lasts 800 ms again.
C34_WitnessOverflow ==
    /\ http.pc = "done"
    /\ http.base_delay_ms = 800
    /\ http.sleeps = <<800, 800>>

(***************************************************************************)
(* C35: Monitor::calculate_expected_run_time.                              *)
(***************************************************************************)
\* The schedule of the job of the last Monitor::check_job call.
MonCheckedSchedule ==
    Unwrap(ParseSchedule(
        mon_conf[CHOOSE i \in 1..Len(mon_conf) :
                     mon_conf[i].name = mon_checked.job].expected_schedule))

\* The most recent firing of the schedule at or before now.
MonLatestFiring ==
    FiringAt(MonCheckedSchedule, FiringsUpTo(MonCheckedSchedule, mon_checked.now))

\* The firings of the schedule in the 7 days before now, now included.
MonFiringsInSevenDays ==
    FiringsUpTo(MonCheckedSchedule, mon_checked.now)
    - FiringsUpTo(MonCheckedSchedule, mon_checked.now - SevenDays)

\* C35: the expected run time Monitor::check_job works with is the most
\* recent firing at or before now when the schedule fires in the 7 days
\* before now, however often, and now itself otherwise.
C35_ExpectedIsLatestFiringInSevenDays ==
    mon_checked.phase = "evaluated"
        => Unwrap(mon_checked.expected) =
              (IF MonFiringsInSevenDays > 0 THEN MonLatestFiring ELSE mon_checked.now)

\* The same for the schedules with at most 1000 firings in the 7 days.
C35_ExpectedIsLatestForSparseSchedules ==
    (mon_checked.phase = "evaluated" /\ MonFiringsInSevenDays <= 1000)
        => Unwrap(mon_checked.expected) =
              (IF MonFiringsInSevenDays > 0 THEN MonLatestFiring ELSE mon_checked.now)

C36_ZeroThresholdNeverGivesVerdict ==
    (/\ checked.phase = "checked"
     /\ checked.threshold = 0
     /\ checked.summary.tag = "ok"
     /\ checked.summary.has_last_build
     /\ checked.summary.url_ok
     /\ checked.details.tag = "ok"
     /\ ~is_build_failed(checked.details.result))
        => checked.verdict.tag = "Err" /\ checked.verdict.err = "lookback"

\* Such a job was checked at 02:00:00, an instant its schedule fires at.
C36_WitnessNoVerdict ==
    /\ checked.phase = "checked"
    /\ checked.threshold = 0
    /\ checked.now = 93600
    /\ checked.details.tag = "ok"
    /\ ~is_build_failed(checked.details.result)
    /\ checked.verdict.err = "lookback"

(***************************************************************************)
(* C37: job_states across a failed delivery and across the error paths.    *)
(***************************************************************************)
\* last_alert_sent of a job is the instant of its last send_alert call that
\* returned Ok, and None when there was none.
C37_LastAlertSentIsLastDelivery ==
    \A j \in DOMAIN job_states :
        /\ IsSome(job_states[j])
             => Unwrap(job_states[j]).last_alert_sent = mon_sent[j].at
        /\ ~IsSome(job_states[j]) => mon_sent[j].at = None

\* One Monitor::check_job call.
C37_CheckJobStep == mon_cursor' = mon_cursor + 1 /\ mon_checked'.phase # "disabled"

\* A call whose send_alert fails leaves last_alert_sent as it was and has
\* already written last_check and last_build_info.
C37_FailedDeliveryKeepsLastAlertSent ==
    [][(/\ C37_CheckJobStep
        /\ mon_checked'.phase = "evaluated"
        /\ mon_checked'.fired
        /\ ~mon_checked'.delivered)
          => LET j == mon_checked'.job
                 before == job_states[j]
                 after == Unwrap(job_states'[j])
             IN  /\ after.last_alert_sent =
                       (IF IsSome(before) THEN Unwrap(before).last_alert_sent ELSE None)
                 /\ after.last_check = mon_checked'.now
                 /\ after.last_build_info = mon_checked'.current_build]_vars

\* In a run of consecutive Overdue ticks of a job in which send_alert was
\* called and has not returned Ok yet, the next Overdue tick calls it again.
C37_OverdueJobRetriedUntilDelivered ==
    [][(/\ C37_CheckJobStep
        /\ mon_checked'.phase = "evaluated"
        /\ mon_checked'.should_alert
        /\ mon_alerts[mon_checked'.job].active
        /\ mon_alerts[mon_checked'.job].fired >= 1
        /\ mon_alerts[mon_checked'.job].delivered = 0)
          => mon_checked'.fired]_vars

\* A call that ends at a failed retrieval or a failed schedule parse leaves
\* job_states as it was: no entry created, none modified.
C37_ErrorPathsLeaveJobStates ==
    [][(/\ C37_CheckJobStep
        /\ mon_checked'.phase \in {"retrieval_error", "invalid_schedule"})
          => job_states' = job_states]_vars

\* C37: a failed delivery leaves last_alert_sent unchanged with last_check
\* and last_build_info already updated; last_alert_sent is Some(t) only for
\* a delivery that succeeded at t; an Overdue job is sent for again at every
\* following Overdue tick until a delivery succeeds; failed retrieval and
\* failed schedule parsing neither create nor modify the job's entry.
C37_FailedDeliveryAndErrorPaths ==
    /\ []C37_LastAlertSentIsLastDelivery
    /\ C37_FailedDeliveryKeepsLastAlertSent
    /\ C37_OverdueJobRetriedUntilDelivered
    /\ C37_ErrorPathsLeaveJobStates

\* The second delivery attempt in a row for a job failed like the first:
\* its entry has the last_check and the build of this tick and no
\* last_alert_sent.
C37_Witness ==
    /\ mon_checked.phase = "evaluated"
    /\ mon_checked.fired
    /\ ~mon_checked.delivered
    /\ mon_alerts[mon_checked.job].fired = 2
    /\ mon_alerts[mon_checked.job].delivered = 0
    /\ job_states[mon_checked.job] =
          Some(JobState(clock, mon_checked.current_build, None))
    /\ clock > StartInstant

\* A retrieval failed for a job that has no entry yet: still none.
C37_WitnessNoEntryOnError ==
    /\ mon_checked.phase = "retrieval_error"
    /\ ~IsSome(job_states[mon_checked.job])
    /\ \E j \in DOMAIN job_states : IsSome(job_states[j])

(***************************************************************************)
(* C38: the send_email_alert calls of monitor_jobs.                        *)
(***************************************************************************)
\* What the last iteration sent follows from what check_job returned alone:
\* Ok(false) one overdue alert, Ok(true) nothing, Err at most the error alert.
C38_AlertFollowsVerdict ==
    /\ checked.phase = "checked"
         => /\ (checked.verdict.tag = "Ok" /\ ~checked.verdict.healthy)
                  => checked.alert = "overdue"
            /\ (checked.verdict.tag = "Ok" /\ checked.verdict.healthy)
                  => checked.alert = "none"
            /\ checked.verdict.tag = "Err" => checked.alert \in {"none", "error"}
    /\ checked.phase \in {"no_schedule", "invalid_schedule"} => checked.alert = "none"

\* The alerts of the iterations of the current run of monitor_jobs: no more
\* than there are jobs, one iteration per job.
C38_AtMostOneSendPerJobAndCycle ==
    /\ Cardinality({i \in 1..Len(handled) : handled[i].alert # "none"})
         <= Len(app_conf.job)
    /\ \A i, k \in 1..Len(handled) : handled[i].job = handled[k].job => i = k

\* One iteration of monitor_jobs makes one send_email_alert call, for the
\* job it checks and at its now, when its result asks for an alert, and
\* none otherwise; the calls made before do not count.
C38_OneSendPerAlertingIteration ==
    [][cursor' = cursor + 1
         => \A j \in DOMAIN emails :
               emails'[j] =
                  (IF j = checked'.job /\ checked'.alert # "none"
                   THEN KeepLastTwo(emails[j], checked'.now)
                   ELSE emails[j])]_vars

\* C38: in every run of monitor_jobs an unhealthy job triggers exactly one
\* send_email_alert call, a healthy one none and an erroring one at most
\* one, whatever was sent in earlier cycles; the calls of a cycle are no
\* more than the configured jobs.
C38_NoAlertHistoryInMainLoop ==
    /\ []C38_AlertFollowsVerdict
    /\ []C38_AtMostOneSendPerJobAndCycle
    /\ C38_OneSendPerAlertingIteration

\* A job found overdue in two consecutive cycles, one minute apart: two
\* send_email_alert calls, one in each.
C38_Witness ==
    /\ cycle = 1
    /\ checked.phase = "checked"
    /\ checked.verdict.tag = "Ok"
    /\ ~checked.verdict.healthy
    /\ checked.alert = "overdue"
    /\ Len(emails[checked.job]) = 2
    /\ emails[checked.job][2] = checked.now
    /\ emails[checked.job][2] - emails[checked.job][1] < 3600
    /\ handled[Len(handled)].alert = "overdue"

====
